---- MODULE Spec2Model ----
(***************************************************************************)
(* Model of the review-scoring and aggregation pipeline of aimdb           *)
(* (rating_system.py, expert_review.py).                                   *)
(*                                                                         *)
(* Texts are sequences of one-character strings.  Numbers that Python      *)
(* holds as floats are exact rationals [n |-> numerator, d |-> denominator]*)
(* with d > 0; float rounding is not modelled.                             *)
(***************************************************************************)
EXTENDS Integers, Sequences, FiniteSets, TLC

VARIABLES
    \* one call of ExpertReviewSystem._parse_score
    response, max_points, parsed, parseLog,
    \* one call of MovieRatingSystem.get_tier
    tierScore, tierLabel,
    \* one call of format_expert_review
    ferScores, ferOut,
    \* one run of run_expert_panel
    panelN, panelPc, panelIdx, panelReviews, panelScores, panelFinal,
    \* one run of ExpertReviewSystem.generate_expert_review, or one direct
    \* call of analyze_screenplay
    experts, transcription, pc, scores, review, screenplayUsed, result,
    report, direct, lmCalls, errLog,
    \* one call of TextAnalyzer.analyze_text
    taInput, analysis, taLog,
    \* one call of parse_review_sections
    sectionsIn, sectionsOut,
    \* one run of process_movie under main
    has_frames, has_sheets, has_audio, has_transcription, no_audio,
    moviePc, frames_dir, sheets_dir, audio_path, movieTranscription,
    audioCalls, reviewCalls, failures, escaped,
    \* one call of SheetGenerator.generate_sheets on a directory of frames
    nFrames, first_frame, sheetPc, num_sheets, sheet_num, sheetFiles,
    sheetsResult,
    \* one call of parse_bullet_points
    bulletsIn, bulletsOut

parseVars == <<response, max_points, parsed, parseLog>>
tierVars == <<tierScore, tierLabel>>
ferVars == <<ferScores, ferOut>>
panelVars == <<panelN, panelPc, panelIdx, panelReviews, panelScores,
               panelFinal>>
reviewVars == <<experts, transcription, pc, scores, review, screenplayUsed,
                result, report, direct, lmCalls, errLog>>
textVars == <<taInput, analysis, taLog>>
sectionVars == <<sectionsIn, sectionsOut>>
movieVars == <<has_frames, has_sheets, has_audio, has_transcription,
               no_audio, moviePc, frames_dir, sheets_dir, audio_path,
               movieTranscription, audioCalls, reviewCalls, failures,
               escaped>>
sheetVars == <<nFrames, first_frame, sheetPc, num_sheets, sheet_num,
               sheetFiles, sheetsResult>>
bulletVars == <<bulletsIn, bulletsOut>>
vars == <<parseVars, tierVars, ferVars, panelVars, reviewVars, textVars,
          sectionVars, movieVars,
          sheetVars, bulletVars>>

---------------------------------------------------------------------------
(* Bounds *)

\* longest response text, counted in fragments of Pool
MaxFrags == 4
\* most expert profiles handed to run_expert_panel
MaxPanel == 3
\* most expert profiles of an ExpertReviewSystem
MaxExperts == 2

---------------------------------------------------------------------------
(* Data model *)

\* the dataclass CategoryScore
CategoryScore(score, justification) ==
    [score |-> score, justification |-> justification]

\* a transcription argument: None, or a mapping with the given keys
TNone == [isNone |-> TRUE, keys |-> {}, text |-> <<>>]
TDict(keys, text) == [isNone |-> FALSE, keys |-> keys, text |-> text]
\* bool(transcription)
Truthy(t) == ~t.isNone /\ t.keys # {}

\* the value None returned by generate_expert_review
ResultNone == [isNone |-> TRUE]

---------------------------------------------------------------------------
(* Exact arithmetic standing in for Python floats *)

Rat(n, d) == [n |-> n, d |-> d]
RInt(k) == Rat(k, 1)
RLe(a, b) == a.n * b.d <= b.n * a.d
RLt(a, b) == a.n * b.d < b.n * a.d
REq(a, b) == a.n * b.d = b.n * a.d

RECURSIVE GCD(_, _)
GCD(a, b) == IF b = 0 THEN a ELSE GCD(b, a % b)
Abs(k) == IF k < 0 THEN -k ELSE k
\* the same number in lowest terms
Norm(r) ==
    LET g == GCD(Abs(r.n), r.d) IN Rat(r.n \div g, r.d \div g)

RAdd(a, b) == Norm(Rat(a.n * b.d + b.n * a.d, a.d * b.d))
RSub(a, b) == Norm(Rat(a.n * b.d - b.n * a.d, a.d * b.d))
RMul(a, b) == Norm(Rat(a.n * b.n, a.d * b.d))
\* Python's min(a, b) and max(a, b): the first argument wins a tie
RMin(a, b) == IF RLt(b, a) THEN b ELSE a
RMax(a, b) == IF RLt(a, b) THEN b ELSE a

\* int() of a float: truncation towards zero
Trunc(r) == IF r.n >= 0 THEN r.n \div r.d ELSE -((-r.n) \div r.d)

\* sum() of a sequence of numbers
RECURSIVE RSum(_)
RSum(xs) == IF xs = <<>> THEN RInt(0) ELSE RAdd(Head(xs), RSum(Tail(xs)))

\* sum(d.values()) of a mapping with numeric values
RECURSIVE DictSum(_)
DictSum(d) ==
    IF DOMAIN d = {} THEN RInt(0)
    ELSE LET k == CHOOSE x \in DOMAIN d : TRUE
         IN  RAdd(d[k], DictSum([x \in DOMAIN d \ {k} |-> d[x]]))

\* a / b of Python: raises ZeroDivisionError when b is zero
CanDivide(b) == b.n # 0
RDiv(a, b) ==
    IF b.n > 0 THEN Norm(Rat(a.n * b.d, a.d * b.n))
    ELSE Norm(Rat(-a.n * b.d, -a.d * b.n))

---------------------------------------------------------------------------
(* Characters and the regular expressions of _parse_score *)

Digits == {"0", "1", "2", "3", "4", "5", "6", "7", "8", "9"}
IsDigit(c) == c \in Digits
DigitVal(c) ==
    CASE c = "0" -> 0 [] c = "1" -> 1 [] c = "2" -> 2 [] c = "3" -> 3
      [] c = "4" -> 4 [] c = "5" -> 5 [] c = "6" -> 6 [] c = "7" -> 7
      [] c = "8" -> 8 [] c = "9" -> 9
\* \s of the re module
IsSpace(c) == c \in {" ", "\n", "\t"}
\* case folding of the (?i) flag, on the letters of "score"
Lower(c) ==
    CASE c = "S" -> "s" [] c = "C" -> "c" [] c = "O" -> "o"
      [] c = "R" -> "r" [] c = "E" -> "e" [] OTHER -> c

RECURSIVE Pow10(_)
Pow10(k) == IF k = 0 THEN 1 ELSE 10 * Pow10(k - 1)

\* the literal lit occurs in s at position i
LitAt(s, i, lit) ==
    /\ i + Len(lit) - 1 <= Len(s)
    /\ \A k \in 1..Len(lit) : s[i + k - 1] = lit[k]
\* the same, ignoring case
LitAtI(s, i, lit) ==
    /\ i + Len(lit) - 1 <= Len(s)
    /\ \A k \in 1..Len(lit) : Lower(s[i + k - 1]) = lit[k]

\* first position at or after i that does not hold a digit
RECURSIVE DigitRunEnd(_, _)
DigitRunEnd(s, i) ==
    IF i <= Len(s) /\ IsDigit(s[i]) THEN DigitRunEnd(s, i + 1) ELSE i
\* first position at or after i that does not hold white space
RECURSIVE SpaceRunEnd(_, _)
SpaceRunEnd(s, i) ==
    IF i <= Len(s) /\ IsSpace(s[i]) THEN SpaceRunEnd(s, i + 1) ELSE i

\* int() of the digits s[i..j-1]
RECURSIVE DigitsVal(_, _, _)
DigitsVal(s, i, j) ==
    IF j <= i THEN 0 ELSE 10 * DigitsVal(s, i, j - 1) + DigitVal(s[j - 1])

\* float() of the token whose integer part is s[i..e1-1] and whose
\* fraction, when e2 > e1, is s[e1+1..e2-1]
TokenVal(s, i, e1, e2) ==
    IF e2 = e1 THEN RInt(DigitsVal(s, i, e1))
    ELSE Rat(DigitsVal(s, i, e1) * Pow10(e2 - e1 - 1)
                + DigitsVal(s, e1 + 1, e2),
             Pow10(e2 - e1 - 1))

SlashThirty == <<"/", "3", "0">>
ScoreColon == <<"s", "c", "o", "r", "e", ":">>

\* The ways (\d+(?:\.\d+)?)/30 can match at position i: e1 ends \d+, e2 ends
\* the optional fraction (e2 = e1 when it is absent), "/30" follows.
NumSlashCands(s, i) ==
    {c \in (i + 1..DigitRunEnd(s, i)) \X (i + 1..Len(s) + 1) :
        /\ \/ c[2] = c[1]
           \/ /\ c[1] <= Len(s) /\ s[c[1]] = "."
              /\ c[2] >= c[1] + 2
              /\ c[2] <= DigitRunEnd(s, c[1] + 1)
        /\ LitAt(s, c[2], SlashThirty)}
\* The candidate the backtracking matcher finds first: longest \d+, then the
\* fraction taken if it can be, as long as it can be.
NumSlashBest(s, i) ==
    CHOOSE c \in NumSlashCands(s, i) :
        \A o \in NumSlashCands(s, i) :
            \/ o[1] < c[1]
            \/ o[1] = c[1] /\ o[2] <= c[2]
NumSlashAt(s, i) == NumSlashCands(s, i) # {}
NumSlashVal(s, i) ==
    LET c == NumSlashBest(s, i) IN TokenVal(s, i, c[1], c[2])

\* re.search(r"(?i)score:\s*(\d+(?:\.\d+)?)/30", s): the start positions
Stage1At(s, i) ==
    /\ LitAtI(s, i, ScoreColon)
    /\ \E w \in i + 6..SpaceRunEnd(s, i + 6) : NumSlashAt(s, w)
Stage1Starts(s) == {i \in 1..Len(s) : Stage1At(s, i)}
\* group(1) of the leftmost match; \s* is greedy and gives back on failure
Stage1Val(s) ==
    LET i == CHOOSE k \in Stage1Starts(s) : \A o \in Stage1Starts(s) : k <= o
        ws == {w \in i + 6..SpaceRunEnd(s, i + 6) : NumSlashAt(s, w)}
        w == CHOOSE k \in ws : \A o \in ws : o <= k
    IN  NumSlashVal(s, w)

\* re.search(r"(\d+(?:\.\d+)?)/30", s)
Stage2Starts(s) == {i \in 1..Len(s) : NumSlashAt(s, i)}
Stage2Val(s) ==
    LET i == CHOOSE k \in Stage2Starts(s) : \A o \in Stage2Starts(s) : k <= o
    IN  NumSlashVal(s, i)

\* response.split('\n')[0]
RECURSIVE NewlineAt(_, _)
NewlineAt(s, i) ==
    IF i > Len(s) \/ s[i] = "\n" THEN i ELSE NewlineAt(s, i + 1)
\* The first line taken to be the whole response
FirstLine_WholeText(s) == s

FirstLine(s) == SubSeq(s, 1, NewlineAt(s, 1) - 1)

\* re.findall(r"(\d+(?:\.\d+)?)", s) from position i on, as float values
RECURSIVE FindNumbers(_, _)
FindNumbers(s, i) ==
    IF i > Len(s) THEN <<>>
    ELSE IF ~IsDigit(s[i]) THEN FindNumbers(s, i + 1)
    ELSE LET e1 == DigitRunEnd(s, i)
             frac == /\ e1 <= Len(s) /\ s[e1] = "."
                     /\ DigitRunEnd(s, e1 + 1) > e1 + 1
             e2 == IF frac THEN DigitRunEnd(s, e1 + 1) ELSE e1
         IN  <<TokenVal(s, i, e1, e2)>> \o FindNumbers(s, e2)

---------------------------------------------------------------------------
(* ExpertReviewSystem._parse_score *)

Str(chars) == [isStr |-> TRUE, chars |-> chars]
\* a response that is not a string (re.search raises TypeError on it)
NoneResponse == [isStr |-> FALSE, chars |-> <<>>]

Parsed(score, stage, warning) ==
    [score |-> score, stage |-> stage, warning |-> warning]

\* first value of the sequence nums lying in [0, maxp], from index k on;
\* <<>> when there is none
RECURSIVE FirstInRange(_, _, _)
FirstInRange(nums, k, maxp) ==
    IF k > Len(nums) THEN <<>>
    ELSE IF RLe(RInt(0), nums[k]) /\ RLe(nums[k], RInt(maxp))
         THEN <<nums[k]>>
         ELSE FirstInRange(nums, k + 1, maxp)

\* Clamp without the ceiling: max(0, score)
Clamp_NoCeiling(score, maxp) == RMax(RInt(0), score)

\* min(max(0, score), max_points)
Clamp(score, maxp) == RMin(RMax(RInt(0), score), RInt(maxp))

\* HalfOf with the factor dropped: max_points * 0
HalfOf_Zero(maxp) == RMul(RInt(maxp), RInt(0))

\* max_points * 0.5
HalfOf(maxp) == RMul(RInt(maxp), Rat(1, 2))

\* _parse_score with the bare "X/30" pattern tried before "score: X/30"
_parse_score_BareFirst(resp, maxp) ==
    IF ~resp.isStr
    THEN Parsed(HalfOf(maxp), "except", "Score parsing failed")
    ELSE LET s == resp.chars
             inFirstLine == FirstInRange(FindNumbers(FirstLine(s), 1), 1, maxp)
         IN  IF Stage2Starts(s) # {}
             THEN Parsed(Clamp(Stage2Val(s), maxp), "bare", "none")
             ELSE IF Stage1Starts(s) # {}
             THEN Parsed(Clamp(Stage1Val(s), maxp), "explicit", "none")
             ELSE IF inFirstLine # <<>>
             THEN Parsed(inFirstLine[1], "first_line", "none")
             ELSE Parsed(HalfOf(maxp), "default",
                         "Could not find valid score")

_parse_score(resp, maxp) ==
    IF ~resp.isStr
    THEN Parsed(HalfOf(maxp), "except", "Score parsing failed")
    ELSE LET s == resp.chars
             inFirstLine == FirstInRange(FindNumbers(FirstLine(s), 1), 1, maxp)
         IN  IF Stage1Starts(s) # {}
             THEN Parsed(Clamp(Stage1Val(s), maxp), "explicit", "none")
             ELSE IF Stage2Starts(s) # {}
             THEN Parsed(Clamp(Stage2Val(s), maxp), "bare", "none")
             ELSE IF inFirstLine # <<>>
             THEN Parsed(inFirstLine[1], "first_line", "none")
             ELSE Parsed(HalfOf(maxp), "default",
                         "Could not find valid score")

---------------------------------------------------------------------------
(* Response texts *)

Pool ==
    { <<"S", "c", "o", "r", "e", ":">>,
      <<" ">>,
      <<"\n">>,
      <<"2", "2", "/", "3", "0">>,
      <<"1", "5", "/", "3", "0">>,
      <<"7">>,
      <<".">>,
      <<"1", ".", "5">>,
      <<"/", "3", "0">>,
      <<"x">> }

RECURSIVE Flatten(_)
Flatten(frags) ==
    IF frags = <<>> THEN <<>> ELSE Head(frags) \o Flatten(Tail(frags))

Texts == {Flatten(f) : f \in UNION {[1..k -> Pool] : k \in 0..MaxFrags}}

\* the values max_points is called with
MaxPointsSet == {10, 15, 30}

---------------------------------------------------------------------------
(* One call of _parse_score on an arbitrary response *)

\* a CategoryScore variable that holds nothing yet
NoScore == CategoryScore([n |-> 0, d |-> 1], <<>>)
NotParsed == Parsed(RInt(0), "not_called", "none")

\* the variables of the operations a specification does not exercise
IdleParse ==
    /\ response = Str(<<>>) /\ max_points = 30
    /\ parsed = NotParsed /\ parseLog = <<>>
IdleTier == tierScore = RInt(0) /\ tierLabel = "not_called"
IdleFer == ferScores = <<>> /\ ferOut = [raised |-> "not_called"]
IdlePanel ==
    /\ panelN = 0 /\ panelPc = "idle" /\ panelIdx = 0
    /\ panelReviews = <<>> /\ panelScores = <<>> /\ panelFinal = RInt(0)

IdleReview ==
    /\ experts = 0 /\ transcription = TNone
    /\ pc = "idle" /\ scores = <<>> /\ review = <<>>
    /\ screenplayUsed = NoScore /\ direct = NoScore
    /\ result = ResultNone /\ report = [raised |-> "not_called"]
    /\ lmCalls = <<>> /\ errLog = <<>>

\* an analysis, a section mapping or a run that has not been produced yet
NoAnalysis == [status |-> "not_called"]
NoSections == [status |-> "not_called"]

IdleText == taInput = TNone /\ analysis = NoAnalysis /\ taLog = <<>>
IdleSections == sectionsIn = <<>> /\ sectionsOut = NoSections
IdleSheets ==
    /\ nFrames = 0 /\ first_frame = 0 /\ sheetPc = "idle" /\ num_sheets = 0
    /\ sheet_num = 0 /\ sheetFiles = <<>> /\ sheetsResult = "unset"
IdleBullets == bulletsIn = <<>> /\ bulletsOut = [status |-> "not_called"]
IdleMovie ==
    /\ has_frames = FALSE /\ has_sheets = FALSE /\ has_audio = FALSE
    /\ has_transcription = FALSE /\ no_audio = FALSE
    /\ moviePc = "idle" /\ frames_dir = "unset" /\ sheets_dir = "unset"
    /\ audio_path = "unset" /\ movieTranscription = TNone
    /\ audioCalls = <<>> /\ reviewCalls = <<>> /\ failures = <<>>
    /\ escaped = "none"

InitParse ==
    /\ response \in {Str(t) : t \in Texts} \cup {NoneResponse}
    /\ max_points \in MaxPointsSet
    /\ parsed = NotParsed
    /\ parseLog = <<>>
    /\ IdleTier /\ IdleFer /\ IdlePanel /\ IdleReview
    /\ IdleText /\ IdleSections /\ IdleMovie
    /\ IdleSheets /\ IdleBullets

ParseScore ==
    /\ parsed.stage = "not_called"
    /\ parsed' = _parse_score(response, max_points)
    /\ parseLog' = IF parsed'.warning = "none" THEN parseLog
                   ELSE Append(parseLog, parsed'.warning)
    /\ UNCHANGED <<response, max_points, tierVars, ferVars, panelVars,
                   reviewVars,
                   textVars, sectionVars, movieVars,
                   sheetVars, bulletVars>>

NextParse == ParseScore
SpecParse == InitParse /\ [][NextParse]_vars

---------------------------------------------------------------------------
(* _parse_score on responses that quote the score over the category's scale *)

\* "/M" as the prompts write it: "Score out of 15 points", "out of 30 points"
ScaleLiteral(maxp) ==
    CASE maxp = 10 -> <<"/", "1", "0">>
      [] maxp = 15 -> <<"/", "1", "5">>
      [] maxp = 30 -> <<"/", "3", "0">>

ScalePool ==
    { <<"S", "c", "o", "r", "e", ":">>,
      <<" ">>,
      <<"\n">>,
      <<"7">>,
      <<"2", "2">>,
      <<"x">> } \cup {ScaleLiteral(m) : m \in MaxPointsSet}

ScaleTexts == {Flatten(f) : f \in UNION {[1..k -> ScalePool] : k \in 0..MaxFrags}}

InitScale ==
    /\ response \in {Str(t) : t \in ScaleTexts}
    /\ max_points \in MaxPointsSet
    /\ parsed = NotParsed
    /\ parseLog = <<>>
    /\ IdleTier /\ IdleFer /\ IdlePanel /\ IdleReview
    /\ IdleText /\ IdleSections /\ IdleMovie
    /\ IdleSheets /\ IdleBullets

SpecScale == InitScale /\ [][NextParse]_vars

---------------------------------------------------------------------------
(* MovieRatingSystem.TIERS and get_tier *)

\* the table in its iteration (insertion) order
TIERS ==
    << [min |-> 95, max |-> 100, tier |-> "Timeless Masterpiece"],
       [min |-> 90, max |-> 94, tier |-> "Exceptional"],
       [min |-> 85, max |-> 89, tier |-> "Outstanding"],
       [min |-> 80, max |-> 84, tier |-> "Excellent"],
       [min |-> 75, max |-> 79, tier |-> "Very Good"],
       [min |-> 70, max |-> 74, tier |-> "Good"],
       [min |-> 65, max |-> 69, tier |-> "Above Average"],
       [min |-> 60, max |-> 64, tier |-> "Average"],
       [min |-> 55, max |-> 59, tier |-> "Below Average"],
       [min |-> 50, max |-> 54, tier |-> "Mediocre"],
       [min |-> 40, max |-> 49, tier |-> "Poor"],
       [min |-> 30, max |-> 39, tier |-> "Very Poor"],
       [min |-> 0, max |-> 29, tier |-> "Critically Flawed"] >>

RECURSIVE TierFrom(_, _)
TierFrom(score, k) ==
    IF k > Len(TIERS) THEN "Unrated"
    ELSE IF RLe(RInt(TIERS[k].min), score) /\ RLe(score, RInt(TIERS[k].max))
         THEN TIERS[k].tier
         ELSE TierFrom(score, k + 1)

get_tier(score) == TierFrom(score, 1)

\* MovieRatingSystem.calculate_confidence_interval for a non-empty list:
\* the mean and the square of the margin z * (std / sqrt(n)), z = 1.96, std
\* the population standard deviation (the margin itself can be irrational)
calculate_confidence_interval(xs) ==
    LET n == Len(xs)
        mean == RDiv(RSum(xs), RInt(n))
        sq == [k \in 1..n |-> RMul(RSub(xs[k], mean), RSub(xs[k], mean))]
        variance == RDiv(RSum(sq), RInt(n))
    IN  [mean |-> mean,
         margin_sq |-> RMul(RMul(Rat(196, 100), Rat(196, 100)),
                            RDiv(variance, RInt(n)))]

\* scores handed to get_tier: every multiple of 1/TierDen from -1 to 101,
\* and the two boundary values 95.0 and 94.999
TierDen == 2
TierScores ==
    {Rat(k, TierDen) : k \in -TierDen..101 * TierDen}
        \cup {Rat(95, 1), Rat(94999, 1000)}

InitTier ==
    /\ tierScore \in TierScores
    /\ tierLabel = "not_called"
    /\ IdleParse /\ IdleFer /\ IdlePanel /\ IdleReview
    /\ IdleText /\ IdleSections /\ IdleMovie
    /\ IdleSheets /\ IdleBullets

GetTier ==
    /\ tierLabel = "not_called"
    /\ tierLabel' = get_tier(tierScore)
    /\ UNCHANGED <<tierScore, parseVars, ferVars, panelVars, reviewVars,
                   textVars, sectionVars, movieVars,
                   sheetVars, bulletVars>>

NextTier == GetTier
SpecTier == InitTier /\ [][NextTier]_vars

---------------------------------------------------------------------------
(* format_expert_review *)

\* The star line of the returned text; raised names the exception that
\* leaves the function.
format_expert_review(scoreMap) ==
    LET total == DictSum(scoreMap)
        max_total == RInt(Cardinality(DOMAIN scoreMap) * 30)
    IN  IF ~CanDivide(max_total)
        THEN [raised |-> "ZeroDivisionError"]
        ELSE LET star_score == RMul(RDiv(total, max_total), RInt(5))
                 full_stars == Trunc(star_score)
                 half_star ==
                     RLe(Rat(1, 2), RSub(star_score, RInt(full_stars)))
             IN  [raised |-> "none", star_score |-> star_score,
                  full_stars |-> full_stars, half_star |-> half_star]

Categories == {"visual_quality", "screenplay_quality", "innovation"}
CategoryValues == {RInt(0), RInt(10), RInt(25), RInt(30)}
ScoreMaps ==
    UNION {[c -> CategoryValues] : c \in SUBSET Categories}

InitStars ==
    /\ ferScores \in ScoreMaps
    /\ ferOut = [raised |-> "not_called"]
    /\ IdleParse /\ IdleTier /\ IdlePanel /\ IdleReview
    /\ IdleText /\ IdleSections /\ IdleMovie
    /\ IdleSheets /\ IdleBullets

FormatExpertReview ==
    /\ ferOut.raised = "not_called"
    /\ ferOut' = format_expert_review(ferScores)
    /\ UNCHANGED <<ferScores, parseVars, tierVars, panelVars, reviewVars,
                   textVars, sectionVars, movieVars,
                   sheetVars, bulletVars>>

NextStars == FormatExpertReview
SpecStars == InitStars /\ [][NextStars]_vars

---------------------------------------------------------------------------
(* ExpertPanel.generate_review and run_expert_panel *)

\* float(s) for the score strings of ScoreStrings: a decimal numeral
\* converts, anything else raises ValueError
PyFloatOk(s) ==
    /\ s # <<>>
    /\ LET e1 == DigitRunEnd(s, 1)
       IN  /\ e1 > 1
           /\ \/ e1 = Len(s) + 1
              \/ /\ s[e1] = "."
                 /\ DigitRunEnd(s, e1 + 1) = Len(s) + 1
                 /\ e1 + 1 <= Len(s)
PyFloat(s) ==
    LET e1 == DigitRunEnd(s, 1)
    IN  TokenVal(s, 1, e1, IF e1 = Len(s) + 1 THEN e1 ELSE Len(s) + 1)

ScoreStrings == { <<"0">>, <<"7">>, <<"8", ".", "5">>, <<"8", "/", "1", "0">> }
ReviewStrings == {"", "A fine film"}
\* what self.reviewer(...) does: raise, or return a review and a score
ReviewerOutcomes ==
    {[raises |-> TRUE, review |-> "", score |-> <<>>]}
        \cup {[raises |-> FALSE, review |-> r, score |-> sc] :
                r \in ReviewStrings, sc \in ScoreStrings}

\* The except clause calls print_error, a name expert_review.py never
\* imports: the handler itself raises NameError, which leaves the method.
generate_review(outcome) ==
    IF outcome.raises \/ ~PyFloatOk(outcome.score)
    THEN [raised |-> "NameError", review |-> "", score |-> RInt(0)]
    ELSE [raised |-> "none", review |-> outcome.review,
          score |-> PyFloat(outcome.score)]

InitPanel ==
    /\ panelN \in 0..MaxPanel
    /\ panelPc = "start" /\ panelIdx = 0
    /\ panelReviews = <<>> /\ panelScores = <<>> /\ panelFinal = RInt(0)
    /\ IdleParse /\ IdleTier /\ IdleFer /\ IdleReview
    /\ IdleText /\ IdleSections /\ IdleMovie
    /\ IdleSheets /\ IdleBullets

\* panel = ExpertPanel(lm); reviews = []; scores = []
PanelStart ==
    /\ panelPc = "start"
    /\ panelPc' = "loop" /\ panelIdx' = 1
    /\ panelReviews' = <<>> /\ panelScores' = <<>>
    /\ UNCHANGED <<panelN, panelFinal, parseVars, tierVars, ferVars,
                   reviewVars,
                   textVars, sectionVars, movieVars,
                   sheetVars, bulletVars>>

\* one iteration of the loop over expert_profiles
PanelReview ==
    /\ panelPc = "loop" /\ panelIdx <= panelN
    /\ \E outcome \in ReviewerOutcomes :
        LET r == generate_review(outcome)
        IN  IF r.raised # "none"
            THEN /\ panelPc' = "raised"
                 /\ UNCHANGED <<panelIdx, panelReviews, panelScores>>
            ELSE /\ panelPc' = "loop"
                 /\ panelIdx' = panelIdx + 1
                 /\ IF r.review # "" /\ r.score.n # 0
                    THEN /\ panelReviews' =
                              Append(panelReviews,
                                     <<panelIdx, r.review, r.score>>)
                         /\ panelScores' = Append(panelScores, r.score)
                    ELSE UNCHANGED <<panelReviews, panelScores>>
    /\ UNCHANGED <<panelN, panelFinal, parseVars, tierVars, ferVars,
                   reviewVars,
                   textVars, sectionVars, movieVars,
                   sheetVars, bulletVars>>

\* final_score = sum(scores) / len(scores) if scores else 0
PanelReturn ==
    /\ panelPc = "loop" /\ panelIdx > panelN
    /\ panelFinal' = IF panelScores # <<>>
                     THEN RDiv(RSum(panelScores), RInt(Len(panelScores)))
                     ELSE RInt(0)
    /\ panelPc' = "returned"
    /\ UNCHANGED <<panelN, panelIdx, panelReviews, panelScores,
                   parseVars, tierVars, ferVars, reviewVars,
                   textVars, sectionVars, movieVars,
                   sheetVars, bulletVars>>

NextPanel == PanelStart \/ PanelReview \/ PanelReturn
SpecPanel == InitPanel /\ [][NextPanel]_vars

---------------------------------------------------------------------------
(* String operations of Python used by the review formatter *)

\* the character U+2022, which a TLA+ string cannot hold
Bullet == "U+2022"

\* s.split(sep) for a one-character separator: the pieces, in order
RECURSIVE SplitFrom(_, _, _, _)
SplitFrom(s, sep, i, cur) ==
    IF i > Len(s) THEN <<cur>>
    ELSE IF s[i] = sep THEN <<cur>> \o SplitFrom(s, sep, i + 1, <<>>)
    ELSE SplitFrom(s, sep, i + 1, Append(cur, s[i]))
Split(s, sep) == SplitFrom(s, sep, 1, <<>>)

\* sep.join(parts)
RECURSIVE Join(_, _)
Join(parts, sep) ==
    IF parts = <<>> THEN <<>>
    ELSE IF Len(parts) = 1 THEN parts[1]
    ELSE parts[1] \o <<sep>> \o Join(Tail(parts), sep)

\* s.strip(chars): drops leading and trailing characters of the set
RECURSIVE LStripChars(_, _)
LStripChars(s, cs) ==
    IF s # <<>> /\ Head(s) \in cs THEN LStripChars(Tail(s), cs) ELSE s
RECURSIVE RStripChars(_, _)
RStripChars(s, cs) ==
    IF s # <<>> /\ s[Len(s)] \in cs
    THEN RStripChars(SubSeq(s, 1, Len(s) - 1), cs) ELSE s
StripChars(s, cs) == RStripChars(LStripChars(s, cs), cs)
WhiteSpace == {" ", "\n", "\t", "\r"}
Strip(s) == StripChars(s, WhiteSpace)

StartsWith(s, lit) == LitAt(s, 1, lit)
EndsWith(s, lit) ==
    Len(lit) <= Len(s) /\ LitAt(s, Len(s) - Len(lit) + 1, lit)

---------------------------------------------------------------------------
(* parse_review_sections and parse_bullet_points *)

\* A dict with string keys, in insertion order: a sequence of entries.
DictHas(d, key) == \E k \in 1..Len(d) : d[k].key = key
DictGet(d, key) == d[CHOOSE k \in 1..Len(d) : d[k].key = key].value
\* d[key] = value: a present key keeps its place
DictSet(d, key, value) ==
    IF DictHas(d, key)
    THEN [k \in 1..Len(d) |->
            IF d[k].key = key THEN [key |-> key, value |-> value] ELSE d[k]]
    ELSE Append(d, [key |-> key, value |-> value])

\* the loop of parse_review_sections without the statement after it that
\* stores the section still open at the end of the text
RECURSIVE SectionsLoop_LastNotStored(_, _, _, _, _)
SectionsLoop_LastNotStored(lines, k, sections, section, text) ==
    IF k > Len(lines) THEN sections
    ELSE LET line == Strip(lines[k])
         IN  IF line = <<>>
             THEN SectionsLoop_LastNotStored(lines, k + 1, sections,
                                             section, text)
             ELSE IF StartsWith(line, <<"*", "*">>)
                        /\ EndsWith(line, <<":", "*", "*">>)
             THEN SectionsLoop_LastNotStored(lines, k + 1,
                      IF section # <<>> /\ section[1] # <<>>
                      THEN DictSet(sections, section[1], Join(text, "\n"))
                      ELSE sections,
                      <<StripChars(line, {"*", ":"})>>, <<>>)
             ELSE SectionsLoop_LastNotStored(lines, k + 1, sections,
                                             section, Append(text, line))

\* the loop of parse_review_sections over lines[k..]; section is <<>> for
\* None and <<name>> for a current section
RECURSIVE SectionsLoop(_, _, _, _, _)
SectionsLoop(lines, k, sections, section, text) ==
    IF k > Len(lines)
    THEN IF section # <<>> /\ section[1] # <<>>
         THEN DictSet(sections, section[1], Join(text, "\n"))
         ELSE sections
    ELSE LET line == Strip(lines[k])
         IN  IF line = <<>>
             THEN SectionsLoop(lines, k + 1, sections, section, text)
             ELSE IF StartsWith(line, <<"*", "*">>)
                        /\ EndsWith(line, <<":", "*", "*">>)
             THEN SectionsLoop(lines, k + 1,
                      IF section # <<>> /\ section[1] # <<>>
                      THEN DictSet(sections, section[1], Join(text, "\n"))
                      ELSE sections,
                      <<StripChars(line, {"*", ":"})>>, <<>>)
             ELSE SectionsLoop(lines, k + 1, sections, section,
                               Append(text, line))

parse_review_sections(review_text) ==
    SectionsLoop(Split(review_text, "\n"), 1, <<>>, <<>>, <<>>)

\* line.split('.', 1)[-1]: what follows the first '.', the line itself
\* when it has none
RECURSIVE AfterFirstDot(_, _)
AfterFirstDot(line, i) ==
    IF i > Len(line) THEN line
    ELSE IF line[i] = "." THEN SubSeq(line, i + 1, Len(line))
    ELSE AfterFirstDot(line, i + 1)

\* the loop of parse_bullet_points over lines[k..]; raised names the
\* exception that leaves the function
RECURSIVE BulletsLoop(_, _, _, _)
BulletsLoop(lines, k, points, current) ==
    IF k > Len(lines)
    THEN [raised |-> "none",
          points |-> IF current # <<>>
                     THEN Append(points, Join(current, " ")) ELSE points]
    ELSE LET line == Strip(lines[k])
         IN  IF line = <<>> THEN BulletsLoop(lines, k + 1, points, current)
             ELSE IF IsDigit(line[1]) /\ Len(line) < 2
             \* line[1] of a one-character line
             THEN [raised |-> "IndexError", points |-> <<>>]
             ELSE IF \/ IsDigit(line[1]) /\ line[2] = "."
                     \/ StartsWith(line, <<Bullet>>)
             THEN BulletsLoop(lines, k + 1,
                      IF current # <<>>
                      THEN Append(points, Join(current, " ")) ELSE points,
                      <<Strip(AfterFirstDot(line, 1))>>)
             ELSE BulletsLoop(lines, k + 1, points, Append(current, line))

parse_bullet_points(text) == BulletsLoop(Split(text, "\n"), 1, <<>>, <<>>)

---------------------------------------------------------------------------
(* format_review_output *)

KeyStrengths ==
    << "K", "e", "y", " ", "S", "t", "r", "e", "n", "g", "t", "h", "s" >>
AreasForImprovement ==
    << "A", "r", "e", "a", "s", " ", "f", "o", "r", " ", "I", "m", "p",
       "r", "o", "v", "e", "m", "e", "n", "t" >>
FinalVerdict ==
    << "F", "i", "n", "a", "l", " ", "V", "e", "r", "d", "i", "c", "t" >>

\* get_rating_tier, without the colour codes around the label
get_rating_tier(percentage) ==
    IF RLe(Rat(9, 10), percentage) THEN "Masterpiece"
    ELSE IF RLe(Rat(8, 10), percentage) THEN "Excellent"
    ELSE IF RLe(Rat(7, 10), percentage) THEN "Very Good"
    ELSE IF RLe(Rat(6, 10), percentage) THEN "Good"
    ELSE IF RLe(Rat(5, 10), percentage) THEN "Average"
    ELSE IF RLe(Rat(4, 10), percentage) THEN "Below Average"
    ELSE "Poor"

\* total_score_100 with the average taken over a scale of 15 points
total_score_100_OutOf15(visual_score, screenplay_score) ==
    RMul(RDiv(RDiv(RAdd(visual_score, screenplay_score), RInt(2)),
              RInt(15)),
         RInt(100))

\* total_score_100 with the sum of the two scores not halved
total_score_100_NotHalved(visual_score, screenplay_score) ==
    RMul(RDiv(RAdd(visual_score, screenplay_score), RInt(30)), RInt(100))

\* total_score = (visual_score + screenplay_score) / 2
\* total_score_100 = (total_score / 30) * 100
total_score_100(visual_score, screenplay_score) ==
    RMul(RDiv(RDiv(RAdd(visual_score, screenplay_score), RInt(2)),
              RInt(30)),
         RInt(100))

\* confidence_range with a band of 3 percent of the total
confidence_range_Relative(total) ==
    <<RSub(total, RMul(total, Rat(3, 100))),
      RAdd(total, RMul(total, Rat(3, 100)))>>

\* confidence_range = [total_score_100 - 3, total_score_100 + 3]
confidence_range(total) == <<RSub(total, RInt(3)), RAdd(total, RInt(3))>>

\* the text of the last section cut into lines of 80 characters:
\* [v[i:i+80] for i in range(0, len(v), 80)]
RECURSIVE Wrap80(_)
Wrap80(v) ==
    IF v = <<>> THEN <<>>
    ELSE IF Len(v) <= 80 THEN <<v>>
    ELSE <<SubSeq(v, 1, 80)>> \o Wrap80(SubSeq(v, 81, Len(v)))

\* The figures and the parsed sections of the report; the title, the expert
\* list and the emoji are rendering only.  raised names the exception that
\* leaves the function.
format_review_output(review_result) ==
    LET visual_score == review_result.scores.visual_quality
        screenplay_score == review_result.scores.screenplay_quality
        total == total_score_100(visual_score, screenplay_score)
        score_out_of_10 == RDiv(total, RInt(10))
        full_stars == Trunc(score_out_of_10)
        sections == parse_review_sections(review_result.review)
        strengths ==
            IF DictHas(sections, KeyStrengths)
            THEN parse_bullet_points(DictGet(sections, KeyStrengths))
            ELSE [raised |-> "none", points |-> <<>>]
        improvements ==
            IF DictHas(sections, AreasForImprovement)
            THEN parse_bullet_points(DictGet(sections, AreasForImprovement))
            ELSE [raised |-> "none", points |-> <<>>]
    IN  IF strengths.raised # "none"
        THEN [raised |-> strengths.raised]
        ELSE IF improvements.raised # "none"
        THEN [raised |-> improvements.raised]
        ELSE [raised |-> "none",
              total_score_100 |-> total,
              confidence_range |-> confidence_range(total),
              full_stars |-> full_stars,
              half_star |->
                  RLe(Rat(1, 2), RSub(score_out_of_10, RInt(full_stars))),
              tier |-> get_rating_tier(RDiv(total, RInt(100))),
              sections |-> sections,
              strengths |-> strengths.points,
              improvements |-> improvements.points,
              verdict_lines |->
                  IF DictHas(sections, FinalVerdict)
                  THEN Wrap80(Strip(DictGet(sections, FinalVerdict)))
                  ELSE <<>>]

---------------------------------------------------------------------------
(* ExpertReviewSystem.analyze_visuals and analyze_screenplay *)

VisualFailedMsg ==
    << "V", "i", "s", "u", "a", "l", " ", "a", "n", "a", "l", "y", "s",
       "i", "s", " ", "f", "a", "i", "l", "e", "d" >>
ScreenplayFailedMsg ==
    << "S", "c", "r", "e", "e", "n", "p", "l", "a", "y", " ", "a", "n",
       "a", "l", "y", "s", "i", "s", " ", "f", "a", "i", "l", "e", "d" >>
NoTranscriptionMsg ==
    << "N", "o", " ", "t", "r", "a", "n", "s", "c", "r", "i", "p", "t",
       "i", "o", "n", " ", "a", "v", "a", "i", "l", "a", "b", "l", "e" >>
NAMsg ==
    << "N", "/", "A" >>

\* what a call of the language model does: raise, or return a text
LMRaise == [raises |-> TRUE, text |-> <<>>]
LMText(text) == [raises |-> FALSE, text |-> text]

LMCall(fn, raised) == [fn |-> fn, raised |-> raised]

\* the result of a scorer: the CategoryScore returned, the model calls
\* made and the lines logged
Scored(cs, calls, logs) == [cs |-> cs, calls |-> calls, logs |-> logs]

ParseLogs(p) == IF p.warning = "none" THEN <<>> ELSE <<p.warning>>

\* analyze_visuals reading the response on a scale of 100 points
analyze_visuals_Scale100(nExperts, lm) ==
    IF nExperts = 0
    THEN Scored(CategoryScore(RInt(15), VisualFailedMsg), <<>>,
                <<"Visual analysis failed">>)
    ELSE IF lm.raises
    THEN Scored(CategoryScore(RInt(15), VisualFailedMsg),
                <<LMCall("analyze_visual_prompt", TRUE)>>,
                <<"Visual analysis failed">>)
    ELSE LET p == _parse_score(Str(lm.text), 100)
         IN  Scored(CategoryScore(p.score, lm.text),
                    <<LMCall("analyze_visual_prompt", FALSE)>>,
                    ParseLogs(p))

\* random.choice(self.expert_profiles) raises IndexError on an empty list,
\* before the model is called
analyze_visuals(nExperts, lm) ==
    IF nExperts = 0
    THEN Scored(CategoryScore(RInt(15), VisualFailedMsg), <<>>,
                <<"Visual analysis failed">>)
    ELSE IF lm.raises
    THEN Scored(CategoryScore(RInt(15), VisualFailedMsg),
                <<LMCall("analyze_visual_prompt", TRUE)>>,
                <<"Visual analysis failed">>)
    ELSE LET p == _parse_score(Str(lm.text), 30)
         IN  Scored(CategoryScore(p.score, lm.text),
                    <<LMCall("analyze_visual_prompt", FALSE)>>,
                    ParseLogs(p))

\* analyze_screenplay whose except clause returns a zero score
analyze_screenplay_ZeroOnFailure(t, lm) ==
    IF ~Truthy(t)
    THEN Scored(CategoryScore(RInt(0), NoTranscriptionMsg), <<>>, <<>>)
    ELSE IF "text" \notin t.keys
    THEN Scored(CategoryScore(RInt(0), ScreenplayFailedMsg), <<>>,
                <<"Screenplay analysis failed">>)
    ELSE IF lm.raises
    THEN Scored(CategoryScore(RInt(0), ScreenplayFailedMsg),
                <<LMCall("analyze_screenplay_prompt", TRUE)>>,
                <<"Screenplay analysis failed">>)
    ELSE LET p == _parse_score(Str(lm.text), 30)
         IN  Scored(CategoryScore(p.score, lm.text),
                    <<LMCall("analyze_screenplay_prompt", FALSE)>>,
                    ParseLogs(p))

\* transcription['text'] raises KeyError while the prompt is built, before
\* the model is called
analyze_screenplay(t, lm) ==
    IF ~Truthy(t)
    THEN Scored(CategoryScore(RInt(0), NoTranscriptionMsg), <<>>, <<>>)
    ELSE IF "text" \notin t.keys
    THEN Scored(CategoryScore(RInt(15), ScreenplayFailedMsg), <<>>,
                <<"Screenplay analysis failed">>)
    ELSE IF lm.raises
    THEN Scored(CategoryScore(RInt(15), ScreenplayFailedMsg),
                <<LMCall("analyze_screenplay_prompt", TRUE)>>,
                <<"Screenplay analysis failed">>)
    ELSE LET p == _parse_score(Str(lm.text), 30)
         IN  Scored(CategoryScore(p.score, lm.text),
                    <<LMCall("analyze_screenplay_prompt", FALSE)>>,
                    ParseLogs(p))

\* generate_final_review_prompt: random.choice raises IndexError on an empty
\* list of profiles; otherwise the model is called
generate_final_review_prompt(nExperts, lm) ==
    IF nExperts = 0
    THEN [raised |-> "IndexError", review |-> <<>>, calls |-> <<>>]
    ELSE IF lm.raises
    THEN [raised |-> "ModelCallError", review |-> <<>>,
          calls |-> <<LMCall("generate_final_review_prompt", TRUE)>>]
    ELSE [raised |-> "none", review |-> lm.text,
          calls |-> <<LMCall("generate_final_review_prompt", FALSE)>>]

\* screenplay_or_default with the neutral 15 as the default score
screenplay_or_default_Neutral(d) ==
    IF DictHas(d, "screenplay_quality") THEN DictGet(d, "screenplay_quality")
    ELSE CategoryScore(RInt(15), NAMsg)

\* scores.get("screenplay_quality", CategoryScore(0, "N/A"))
screenplay_or_default(d) ==
    IF DictHas(d, "screenplay_quality") THEN DictGet(d, "screenplay_quality")
    ELSE CategoryScore(RInt(0), NAMsg)

---------------------------------------------------------------------------
(* Inputs of a review run *)

Transcriptions ==
    { TNone,
      TDict({}, <<>>),
      TDict({"language"}, <<>>),
      TDict({"text"}, <<>>),
      TDict({"text"}, <<"H", "i", ".">>) }

\* texts the model returns to the two scorers
RunResponses ==
    {
      << "S", "c", "o", "r", "e", ":", " ", "2", "5", "/", "3", "0" >>,
      << "S", "c", "o", "r", "e", ":", " ", "2", "0", "/", "3", "0" >>,
      << "S", "c", "o", "r", "e", ":", " ", "4", "5", "/", "3", "0" >>,
      << "0", "/", "3", "0", " ", "x" >>,
      << "7" >>,
      << "x" >>
    }
ScorerOutcomes == {LMRaise} \cup {LMText(t) : t \in RunResponses}

\* texts the model returns as the final review
ReviewTexts ==
    {
      << "*", "*", "K", "e", "y", " ", "S", "t", "r", "e", "n", "g",
         "t", "h", "s", ":", "*", "*", "\n", "S", "t", "r", "o", "n",
         "g", " ", "p", "a", "c", "i", "n", "g", ".", "\n", "*", "*",
         "F", "i", "n", "a", "l", " ", "V", "e", "r", "d", "i", "c",
         "t", ":", "*", "*", "\n", "G", "o", "o", "d", " ", "f", "i",
         "l", "m", "." >>,
      << "*", "*", "K", "e", "y", " ", "S", "t", "r", "e", "n", "g",
         "t", "h", "s", ":", "*", "*", "\n", "1", ".", " ", "B", "o",
         "l", "d", "\n", "2", "\n" >>,
      << "*", "*", "A", "r", "e", "a", "s", " ", "f", "o", "r", " ",
         "I", "m", "p", "r", "o", "v", "e", "m", "e", "n", "t", ":",
         "*", "*", "\n", Bullet, " ", "S", "l", "o", "w", ".", " ", "L",
         "o", "n", "g", "\n", "a", "n", "d", " ", "d", "u", "l", "l" >>,
      << "O", "v", "e", "r", "a", "l", "l", " ", "R", "a", "t", "i",
         "n", "g", ":", " ", "7", "0", "/", "1", "0", "0" >>
    }
ReviewOutcomes == {LMRaise} \cup {LMText(t) : t \in ReviewTexts}

---------------------------------------------------------------------------
(* ExpertReviewSystem.generate_expert_review, step by step *)

InitReview ==
    /\ experts \in 0..MaxExperts
    /\ transcription \in Transcriptions
    /\ pc = "start" /\ scores = <<>> /\ review = <<>>
    /\ screenplayUsed = NoScore /\ direct = NoScore
    /\ result = ResultNone /\ report = [raised |-> "not_called"]
    /\ lmCalls = <<>> /\ errLog = <<>>
    /\ IdleParse /\ IdleTier /\ IdleFer /\ IdlePanel
    /\ IdleText /\ IdleSections /\ IdleMovie
    /\ IdleSheets /\ IdleBullets

\* scores = {}
ReviewStart ==
    /\ pc = "start"
    /\ pc' = "visuals" /\ scores' = <<>>
    /\ UNCHANGED <<experts, transcription, review, screenplayUsed, result,
                   report, direct, lmCalls, errLog,
                   parseVars, tierVars, ferVars, panelVars,
                   textVars, sectionVars, movieVars,
                   sheetVars, bulletVars>>

\* scores["visual_quality"] = await self.analyze_visuals(sheets_dir)
AnalyzeVisuals ==
    /\ pc = "visuals"
    /\ \E lm \in ScorerOutcomes :
        LET r == analyze_visuals(experts, lm)
        IN  /\ scores' = DictSet(scores, "visual_quality", r.cs)
            /\ lmCalls' = lmCalls \o r.calls
            /\ errLog' = errLog \o r.logs
    /\ pc' = "screenplay"
    /\ UNCHANGED <<experts, transcription, review, screenplayUsed, result,
                   report, direct, parseVars, tierVars, ferVars, panelVars,
                   textVars, sectionVars, movieVars,
                   sheetVars, bulletVars>>

\* The screenplay step writing its score over the visual score as well
AnalyzeScreenplay_Rescores ==
    /\ pc = "screenplay"
    /\ Truthy(transcription)
    /\ \E lm \in ScorerOutcomes :
        LET r == analyze_screenplay(transcription, lm)
        IN  /\ scores' = DictSet(DictSet(scores, "visual_quality", r.cs),
                                 "screenplay_quality", r.cs)
            /\ lmCalls' = lmCalls \o r.calls
            /\ errLog' = errLog \o r.logs
    /\ pc' = "final_review"
    /\ UNCHANGED <<experts, transcription, review, screenplayUsed, result,
                   report, direct, parseVars, tierVars, ferVars, panelVars,
                   textVars, sectionVars, movieVars,
                   sheetVars, bulletVars>>

\* if transcription: scores["screenplay_quality"] = await
\* self.analyze_screenplay(transcription)
AnalyzeScreenplay ==
    /\ pc = "screenplay"
    /\ Truthy(transcription)
    /\ \E lm \in ScorerOutcomes :
        LET r == analyze_screenplay(transcription, lm)
        IN  /\ scores' = DictSet(scores, "screenplay_quality", r.cs)
            /\ lmCalls' = lmCalls \o r.calls
            /\ errLog' = errLog \o r.logs
    /\ pc' = "final_review"
    /\ UNCHANGED <<experts, transcription, review, screenplayUsed, result,
                   report, direct, parseVars, tierVars, ferVars, panelVars,
                   textVars, sectionVars, movieVars,
                   sheetVars, bulletVars>>

\* the same statement when transcription is falsy: nothing is scored
SkipScreenplay ==
    /\ pc = "screenplay"
    /\ ~Truthy(transcription)
    /\ pc' = "final_review"
    /\ UNCHANGED <<experts, transcription, scores, review, screenplayUsed,
                   result, report, direct, lmCalls, errLog,
                   parseVars, tierVars, ferVars, panelVars,
                   textVars, sectionVars, movieVars,
                   sheetVars, bulletVars>>

\* review = self.generate_final_review_prompt(movie_name, scores); an
\* exception is caught by the except clause of generate_expert_review,
\* which logs it and returns None
FinalReview ==
    /\ pc = "final_review"
    /\ \E lm \in ReviewOutcomes :
        LET r == generate_final_review_prompt(experts, lm)
        IN  /\ lmCalls' = lmCalls \o r.calls
            /\ IF r.raised # "none"
               THEN /\ errLog' = Append(errLog,
                                        "Failed to generate expert review")
                    /\ result' = ResultNone
                    /\ pc' = "done"
                    /\ UNCHANGED review
               ELSE /\ review' = r.review
                    /\ pc' = "format"
                    /\ UNCHANGED <<errLog, result>>
    /\ UNCHANGED <<experts, transcription, scores, screenplayUsed, report,
                   direct, parseVars, tierVars, ferVars, panelVars,
                   textVars, sectionVars, movieVars,
                   sheetVars, bulletVars>>

\* result = {...}; print(format_review_output(result, ...)); return result;
\* an exception of format_review_output is caught the same way
FormatResult ==
    /\ pc = "format"
    /\ LET used == screenplay_or_default(scores)
           res == [isNone |-> FALSE,
                   review |-> review,
                   scores |->
                       [visual_quality |->
                            DictGet(scores, "visual_quality").score,
                        screenplay_quality |-> used.score]]
           out == format_review_output(res)
       IN  /\ screenplayUsed' = used
           /\ report' = out
           /\ IF out.raised # "none"
              THEN /\ errLog' = Append(errLog,
                                       "Failed to generate expert review")
                   /\ result' = ResultNone
              ELSE /\ result' = res
                   /\ UNCHANGED errLog
    /\ pc' = "done"
    /\ UNCHANGED <<experts, transcription, scores, review, direct, lmCalls,
                   parseVars, tierVars, ferVars, panelVars,
                   textVars, sectionVars, movieVars,
                   sheetVars, bulletVars>>

\* analyze_screenplay called on its own, outside generate_expert_review
DirectScreenplay ==
    /\ pc = "start"
    /\ \E lm \in ScorerOutcomes :
        LET r == analyze_screenplay(transcription, lm)
        IN  /\ direct' = r.cs
            /\ lmCalls' = lmCalls \o r.calls
            /\ errLog' = errLog \o r.logs
    /\ pc' = "direct_done"
    /\ UNCHANGED <<experts, transcription, scores, review, screenplayUsed,
                   result, report, parseVars, tierVars, ferVars, panelVars,
                   textVars, sectionVars, movieVars,
                   sheetVars, bulletVars>>

NextReview ==
    \/ ReviewStart \/ AnalyzeVisuals \/ AnalyzeScreenplay \/ SkipScreenplay
    \/ FinalReview \/ FormatResult \/ DirectScreenplay
SpecReview == InitReview /\ [][NextReview]_vars

---------------------------------------------------------------------------
(* TextAnalyzer *)

\* s.split(sep) for a separator of one or more characters: the text is cut
\* at each occurrence found from the left, occurrences never overlapping
RECURSIVE SplitOnFrom(_, _, _, _)
SplitOnFrom(s, sep, i, cur) ==
    IF i > Len(s) THEN <<cur>>
    ELSE IF LitAt(s, i, sep)
    THEN <<cur>> \o SplitOnFrom(s, sep, i + Len(sep), <<>>)
    ELSE SplitOnFrom(s, sep, i + 1, Append(cur, s[i]))
SplitOn(s, sep) == SplitOnFrom(s, sep, 1, <<>>)

\* s.split(): the maximal runs of non-whitespace characters
RECURSIVE SplitWordsFrom(_, _, _)
SplitWordsFrom(s, i, cur) ==
    IF i > Len(s) THEN IF cur = <<>> THEN <<>> ELSE <<cur>>
    ELSE IF s[i] \in WhiteSpace
    THEN (IF cur = <<>> THEN <<>> ELSE <<cur>>)
            \o SplitWordsFrom(s, i + 1, <<>>)
    ELSE SplitWordsFrom(s, i + 1, Append(cur, s[i]))
SplitWords(s) == SplitWordsFrom(s, 1, <<>>)

\* c in s
Contains(s, c) == \E i \in 1..Len(s) : s[i] = c

\* sum(1 for s in sentences if '"' in s or "'" in s)
RECURSIVE DialogueCount(_)
DialogueCount(sentences) ==
    IF sentences = <<>> THEN 0
    ELSE (IF Contains(Head(sentences), "\"") \/ Contains(Head(sentences), "'")
          THEN 1 ELSE 0) + DialogueCount(Tail(sentences))

\* the sentence separator with the space left out
SentenceSep_DotOnly == <<".">>
\* the separator of text.split('. ')
SentenceSep == <<".", " ">>

\* _analyze_dialogue_markers counting the quote characters of the text
\* instead of the sentences that hold one
_analyze_dialogue_markers_CountQuotes(text) ==
    LET sentences == SplitOn(text, SentenceSep)
        dialogue_count ==
            Cardinality({i \in 1..Len(text) : text[i] \in {"\"", "'"}})
    IN  [dialogue_sentences |-> dialogue_count,
         dialogue_ratio |->
             IF sentences # <<>>
             THEN RDiv(RInt(dialogue_count), RInt(Len(sentences)))
             ELSE RInt(0)]

_analyze_dialogue_markers(text) ==
    LET sentences == SplitOn(text, SentenceSep)
        dialogue_count == DialogueCount(sentences)
    IN  [dialogue_sentences |-> dialogue_count,
         dialogue_ratio |->
             IF sentences # <<>>
             THEN RDiv(RInt(dialogue_count), RInt(Len(sentences)))
             ELSE RInt(0)]

_get_empty_analysis ==
    [status |-> "returned",
     word_count |-> 0,
     sentence_count |-> 0,
     avg_sentence_length |-> RInt(0),
     dialogue_markers |->
         [dialogue_sentences |-> 0, dialogue_ratio |-> RInt(0)],
     dialogue_ratio |-> RInt(0)]

\* not transcription or "text" not in transcription: the empty analysis;
\* otherwise the counts of the text
analyze_text(t) ==
    IF ~Truthy(t) \/ "text" \notin t.keys
    THEN _get_empty_analysis
    ELSE LET text == t.text
             sentences == SplitOn(text, SentenceSep)
             words == SplitWords(text)
             dialogue_markers == _analyze_dialogue_markers(text)
         IN  [status |-> "returned",
              word_count |-> Len(words),
              sentence_count |-> Len(sentences),
              avg_sentence_length |->
                  IF sentences # <<>>
                  THEN RDiv(RInt(Len(words)), RInt(Len(sentences)))
                  ELSE RInt(0),
              dialogue_markers |-> dialogue_markers,
              dialogue_ratio |-> dialogue_markers.dialogue_ratio]

\* longest transcript text, in characters
MaxTextLen == 5
TextChars == {"a", " ", ".", "\"", "'"}
RECURSIVE TextsUpTo(_)
TextsUpTo(n) ==
    IF n = 0 THEN {<<>>}
    ELSE LET shorter == TextsUpTo(n - 1)
         IN  shorter \cup {Append(t, c) : t \in shorter, c \in TextChars}

\* the text 'He said "hi". She left.'
HeSaidHi ==
    << "H", "e", " ", "s", "a", "i", "d", " ", "\"", "h", "i", "\"", ".",
       " ", "S", "h", "e", " ", "l", "e", "f", "t", "." >>

AnalyzerInputs ==
    { TNone, TDict({}, <<>>), TDict({"language"}, <<>>),
      TDict({"text"}, HeSaidHi) }
        \cup {TDict({"text"}, t) : t \in TextsUpTo(MaxTextLen)}
        \cup {TDict({"text", "language"}, t) : t \in TextsUpTo(1)}

InitText ==
    /\ taInput \in AnalyzerInputs
    /\ analysis = NoAnalysis
    /\ taLog = <<>>
    /\ IdleParse /\ IdleTier /\ IdleFer /\ IdlePanel /\ IdleReview
    /\ IdleSections /\ IdleMovie
    /\ IdleSheets /\ IdleBullets

AnalyzeText ==
    /\ analysis = NoAnalysis
    /\ analysis' = analyze_text(taInput)
    /\ taLog' = IF ~Truthy(taInput) \/ "text" \notin taInput.keys
                THEN <<"No text provided for analysis">>
                ELSE <<"Text analysis completed successfully">>
    /\ UNCHANGED <<taInput, parseVars, tierVars, ferVars, panelVars,
                   reviewVars, sectionVars, movieVars,
                   sheetVars, bulletVars>>

NextText == AnalyzeText
SpecText == InitText /\ [][NextText]_vars

---------------------------------------------------------------------------
(* One call of parse_review_sections on an arbitrary review text *)

\* most lines of a review text handed to parse_review_sections
MaxLines == 4

\* the lines review texts are made of: headers, a header with spaces around
\* it, a header without a title, a header with a third star, body lines and
\* a blank line
LinePool ==
    { <<"*", "*", "A", ":", "*", "*">>,
      <<"*", "*", "B", ":", "*", "*">>,
      <<" ", "*", "*", "A", ":", "*", "*", " ">>,
      <<"*", "*", ":", "*", "*">>,
      <<"*", "*", "*", "A", ":", "*", "*">>,
      <<"x">>,
      <<" ", "y", ".">>,
      <<>> }

RECURSIVE LineSeqs(_)
LineSeqs(n) ==
    IF n = 0 THEN {<<>>}
    ELSE LET shorter == LineSeqs(n - 1)
         IN  shorter \cup {Append(ls, l) : ls \in shorter, l \in LinePool}

\* a review of two sections: the header of the strengths, the line 'Strong
\* pacing.', the header of the last section, the line 'Good film.'
StrongPacingReview ==
    << "*", "*", "K", "e", "y", " ", "S", "t", "r", "e", "n", "g", "t",
       "h", "s", ":", "*", "*", "\n", "S", "t", "r", "o", "n", "g", " ",
       "p", "a", "c", "i", "n", "g", ".", "\n", "*", "*", "F", "i", "n",
       "a", "l", " ", "V", "e", "r", "d", "i", "c", "t", ":", "*", "*",
       "\n", "G", "o", "o", "d", " ", "f", "i", "l", "m", "." >>

SectionTexts ==
    {Join(ls, "\n") : ls \in LineSeqs(MaxLines)} \cup {StrongPacingReview}

InitSections ==
    /\ sectionsIn \in SectionTexts
    /\ sectionsOut = NoSections
    /\ IdleParse /\ IdleTier /\ IdleFer /\ IdlePanel /\ IdleReview
    /\ IdleText /\ IdleMovie
    /\ IdleSheets /\ IdleBullets

ParseReviewSections ==
    /\ sectionsOut = NoSections
    /\ sectionsOut' = [status |-> "returned",
                       dict |-> parse_review_sections(sectionsIn)]
    /\ UNCHANGED <<sectionsIn, parseVars, tierVars, ferVars, panelVars,
                   reviewVars, textVars, movieVars,
                   sheetVars, bulletVars>>

NextSections == ParseReviewSections
SpecSections == InitSections /\ [][NextSections]_vars

---------------------------------------------------------------------------
(* One call of parse_bullet_points on an arbitrary section text *)

\* the lines section texts are made of: numbered points, one with a second
\* sentence, bullet points with and without a full stop, a point numbered
\* 12, a lone digit, a continuation line and a blank line
BulletLinePool ==
    { <<"1", ".", " ", "A">>,
      <<" ", "2", ".", "B", ".", " ", "C">>,
      <<Bullet, " ", "D">>,
      <<Bullet, " ", "E", ".", " ", "F">>,
      <<"1", "2", ".", " ", "G">>,
      <<"3">>,
      <<"x">>,
      <<>> }

RECURSIVE BulletLineSeqs(_)
BulletLineSeqs(n) ==
    IF n = 0 THEN {<<>>}
    ELSE LET shorter == BulletLineSeqs(n - 1)
         IN  shorter \cup
                 {Append(ls, l) : ls \in shorter, l \in BulletLinePool}

BulletTexts == {Join(ls, "\n") : ls \in BulletLineSeqs(MaxLines)}

InitBullets ==
    /\ bulletsIn \in BulletTexts
    /\ bulletsOut = [status |-> "not_called"]
    /\ IdleParse /\ IdleTier /\ IdleFer /\ IdlePanel /\ IdleReview
    /\ IdleText /\ IdleSections /\ IdleMovie /\ IdleSheets

ParseBulletPoints ==
    /\ bulletsOut.status = "not_called"
    /\ LET r == parse_bullet_points(bulletsIn)
       IN  bulletsOut' = [status |-> "returned", raised |-> r.raised,
                          points |-> r.points]
    /\ UNCHANGED <<bulletsIn, parseVars, tierVars, ferVars, panelVars,
                   reviewVars, textVars, sectionVars, movieVars, sheetVars>>

NextBullets == ParseBulletPoints
SpecBullets == InitBullets /\ [][NextBullets]_vars

---------------------------------------------------------------------------
(* main.process_movie, step by step, with the run of generate_expert_review
   it starts *)

\* the except clause of process_movie handing the exception on to main,
\* whose own except clause reports it again
process_movie_except_Reraises(fails, msg) ==
    [failures |-> Append(Append(fails, msg), msg), escaped |-> "Exception"]

\* except Exception as e: logger.error("Analysis failed", ...);
\* print_error("Analysis failed:", str(e)): one report, and process_movie
\* returns
process_movie_except(fails, msg) ==
    [failures |-> Append(fails, msg), escaped |-> "none"]

\* a missing audio track treated like missing frames: an exception
audio_failure_raises_AsFrames(path) == path = "None"

\* if audio_path: print_step(...): a failed extraction raises nothing
audio_failure_raises(path) == FALSE

\* what a collaborator that yields a path returns: the path, or None
PathOutcomes == {"created", "None"}
\* the text of a transcript, read from transcription.txt (the read itself
\* is taken to succeed) or transcribed
FileTexts == { <<>>, <<"H", "i", ".">> }
\* split_audio: the number of chunks, 0 after a failure
ChunkCounts == {0, 1, 2}
\* transcribe_audio: {"text": ...}, or None after a failure
TranscribeOutcomes == {TNone} \cup {TDict({"text"}, t) : t \in FileTexts}

AudioCall(op, ok) == [op |-> op, ok |-> ok]

InitMovie ==
    /\ has_frames \in BOOLEAN /\ has_sheets \in BOOLEAN
    /\ has_audio \in BOOLEAN /\ has_transcription \in BOOLEAN
    /\ no_audio \in BOOLEAN
    /\ moviePc = "start"
    /\ frames_dir = "unset" /\ sheets_dir = "unset" /\ audio_path = "unset"
    /\ movieTranscription = TNone
    /\ audioCalls = <<>> /\ reviewCalls = <<>> /\ failures = <<>>
    /\ escaped = "none"
    /\ experts \in 0..MaxExperts
    /\ transcription = TNone
    /\ pc = "idle" /\ scores = <<>> /\ review = <<>>
    /\ screenplayUsed = NoScore /\ direct = NoScore
    /\ result = ResultNone /\ report = [raised |-> "not_called"]
    /\ lmCalls = <<>> /\ errLog = <<>>
    /\ IdleParse /\ IdleTier /\ IdleFer /\ IdlePanel
    /\ IdleText /\ IdleSections
    /\ IdleSheets /\ IdleBullets

\* the exception msg raised in the try block: the except clause, then return
MovieFails(msg) ==
    LET h == process_movie_except(failures, msg)
    IN  /\ failures' = h.failures
        /\ escaped' = h.escaped
        /\ moviePc' = "returned"

\* check_files_exist(movie_name)
MovieStart ==
    /\ moviePc = "start"
    /\ moviePc' = "frames"
    /\ frames_dir' = "existing" /\ sheets_dir' = "existing"
    /\ audio_path' = "existing"
    /\ UNCHANGED <<has_frames, has_sheets, has_audio, has_transcription,
                   no_audio, movieTranscription, audioCalls, reviewCalls,
                   failures, escaped,
                   parseVars, tierVars, ferVars, panelVars, reviewVars,
                   textVars, sectionVars,
                   sheetVars, bulletVars>>

\* if has_frames: ... else: frames_dir = extract_frames(movie_path);
\* if not frames_dir: raise Exception("Frame extraction failed")
MovieFrames ==
    /\ moviePc = "frames"
    /\ IF has_frames
       THEN /\ moviePc' = "sheets"
            /\ UNCHANGED <<frames_dir, failures, escaped>>
       ELSE \E out \in PathOutcomes :
               /\ frames_dir' = out
               /\ IF out = "None"
                  THEN MovieFails("Frame extraction failed")
                  ELSE /\ moviePc' = "sheets"
                       /\ UNCHANGED <<failures, escaped>>
    /\ UNCHANGED <<has_frames, has_sheets, has_audio, has_transcription,
                   no_audio, sheets_dir, audio_path, movieTranscription,
                   audioCalls, reviewCalls,
                   parseVars, tierVars, ferVars, panelVars, reviewVars,
                   textVars, sectionVars,
                   sheetVars, bulletVars>>

\* if has_sheets: ... else: sheets_dir = generate_sheets(frames_dir);
\* if not sheets_dir: raise Exception("Sheet generation failed")
MovieSheets ==
    /\ moviePc = "sheets"
    /\ IF has_sheets
       THEN /\ moviePc' = "audio"
            /\ UNCHANGED <<sheets_dir, failures, escaped>>
       ELSE \E out \in PathOutcomes :
               /\ sheets_dir' = out
               /\ IF out = "None"
                  THEN MovieFails("Sheet generation failed")
                  ELSE /\ moviePc' = "audio"
                       /\ UNCHANGED <<failures, escaped>>
    /\ UNCHANGED <<has_frames, has_sheets, has_audio, has_transcription,
                   no_audio, frames_dir, audio_path, movieTranscription,
                   audioCalls, reviewCalls,
                   parseVars, tierVars, ferVars, panelVars, reviewVars,
                   textVars, sectionVars,
                   sheetVars, bulletVars>>

\* The audio block entered whatever the --no-audio flag says
MovieAudio_IgnoresFlag ==
    /\ moviePc = "audio"
    /\ movieTranscription' = TNone
    /\ \E ok \in BOOLEAN :
           /\ audioCalls' = Append(audioCalls,
                                   AudioCall("AudioExtractor", ok))
           /\ IF ok
              THEN /\ moviePc' = "extract_audio"
                   /\ UNCHANGED <<failures, escaped>>
              ELSE MovieFails("OpenAIError")
    /\ UNCHANGED <<has_frames, has_sheets, has_audio, has_transcription,
                   no_audio, frames_dir, sheets_dir, audio_path,
                   reviewCalls,
                   parseVars, tierVars, ferVars, panelVars, reviewVars,
                   textVars, sectionVars,
                   sheetVars, bulletVars>>

\* transcription = None; if not args.no_audio: audio_extractor =
\* AudioExtractor(), whose OpenAI() client raises without credentials
MovieAudio ==
    /\ moviePc = "audio"
    /\ movieTranscription' = TNone
    /\ IF no_audio
       THEN /\ moviePc' = "review"
            /\ UNCHANGED <<audioCalls, failures, escaped>>
       ELSE \E ok \in BOOLEAN :
               /\ audioCalls' = Append(audioCalls,
                                       AudioCall("AudioExtractor", ok))
               /\ IF ok
                  THEN /\ moviePc' = "extract_audio"
                       /\ UNCHANGED <<failures, escaped>>
                  ELSE MovieFails("OpenAIError")
    /\ UNCHANGED <<has_frames, has_sheets, has_audio, has_transcription,
                   no_audio, frames_dir, sheets_dir, audio_path,
                   reviewCalls,
                   parseVars, tierVars, ferVars, panelVars, reviewVars,
                   textVars, sectionVars,
                   sheetVars, bulletVars>>

\* if has_audio: ... else: audio_path = extract_audio(movie_path)
MovieExtractAudio ==
    /\ moviePc = "extract_audio"
    /\ IF has_audio
       THEN /\ moviePc' = "transcription"
            /\ UNCHANGED <<audio_path, audioCalls, failures, escaped>>
       ELSE \E out \in PathOutcomes :
               /\ audio_path' = out
               /\ audioCalls' = Append(audioCalls,
                                       AudioCall("extract_audio",
                                                 out # "None"))
               /\ IF audio_failure_raises(out)
                  THEN MovieFails("Audio extraction failed")
                  ELSE /\ moviePc' = "transcription"
                       /\ UNCHANGED <<failures, escaped>>
    /\ UNCHANGED <<has_frames, has_sheets, has_audio, has_transcription,
                   no_audio, frames_dir, sheets_dir, movieTranscription,
                   reviewCalls,
                   parseVars, tierVars, ferVars, panelVars, reviewVars,
                   textVars, sectionVars,
                   sheetVars, bulletVars>>

\* if has_transcription: transcription = {"text": f.read()}
\* elif audio_path: (split and transcribe)
MovieTranscription ==
    /\ moviePc = "transcription"
    /\ IF has_transcription
       THEN \E text \in FileTexts :
               /\ movieTranscription' = TDict({"text"}, text)
               /\ moviePc' = "review"
       ELSE /\ moviePc' = IF audio_path # "None" THEN "split" ELSE "review"
            /\ UNCHANGED movieTranscription
    /\ UNCHANGED <<has_frames, has_sheets, has_audio, has_transcription,
                   no_audio, frames_dir, sheets_dir, audio_path,
                   audioCalls, reviewCalls, failures, escaped,
                   parseVars, tierVars, ferVars, panelVars, reviewVars,
                   textVars, sectionVars,
                   sheetVars, bulletVars>>

\* chunks = split_audio(audio_path); if chunks: transcription = await
\* transcribe_audio(chunks)
MovieSplitAudio ==
    /\ moviePc = "split"
    /\ \E chunks \in ChunkCounts :
          IF chunks = 0
          THEN /\ audioCalls' = Append(audioCalls,
                                       AudioCall("split_audio", FALSE))
               /\ UNCHANGED movieTranscription
          ELSE \E t \in TranscribeOutcomes :
                  /\ audioCalls' =
                         audioCalls \o
                             << AudioCall("split_audio", TRUE),
                                AudioCall("transcribe_audio", ~t.isNone) >>
                  /\ movieTranscription' = t
    /\ moviePc' = "review"
    /\ UNCHANGED <<has_frames, has_sheets, has_audio, has_transcription,
                   no_audio, frames_dir, sheets_dir, audio_path,
                   reviewCalls, failures, escaped,
                   parseVars, tierVars, ferVars, panelVars, reviewVars,
                   textVars, sectionVars,
                   sheetVars, bulletVars>>

\* rating = await review_system.generate_expert_review(movie_name=...,
\* sheets_dir=..., transcription=transcription): the call is entered
MovieReview ==
    /\ moviePc = "review"
    /\ moviePc' = "in_review"
    /\ reviewCalls' = Append(reviewCalls, movieTranscription)
    /\ transcription' = movieTranscription
    /\ pc' = "start"
    /\ UNCHANGED <<has_frames, has_sheets, has_audio, has_transcription,
                   no_audio, frames_dir, sheets_dir, audio_path,
                   movieTranscription, audioCalls, failures, escaped,
                   experts, scores, review, screenplayUsed, result, report,
                   direct, lmCalls, errLog,
                   parseVars, tierVars, ferVars, panelVars,
                   textVars, sectionVars,
                   sheetVars, bulletVars>>

\* generate_expert_review has returned (a result or None, never an
\* exception); if rating: print(...); process_movie returns
MovieReturn ==
    /\ moviePc = "in_review" /\ pc = "done"
    /\ moviePc' = "returned"
    /\ UNCHANGED <<has_frames, has_sheets, has_audio, has_transcription,
                   no_audio, frames_dir, sheets_dir, audio_path,
                   movieTranscription, audioCalls, reviewCalls, failures,
                   escaped,
                   parseVars, tierVars, ferVars, panelVars, reviewVars,
                   textVars, sectionVars,
                   sheetVars, bulletVars>>

NextMovie ==
    \/ MovieStart \/ MovieFrames \/ MovieSheets \/ MovieAudio
    \/ MovieExtractAudio \/ MovieTranscription \/ MovieSplitAudio
    \/ MovieReview \/ MovieReturn
    \/ ReviewStart \/ AnalyzeVisuals \/ AnalyzeScreenplay \/ SkipScreenplay
    \/ FinalReview \/ FormatResult
SpecMovie == InitMovie /\ [][NextMovie]_vars

---------------------------------------------------------------------------
(* FrameExtractor's frame files and SheetGenerator.generate_sheets *)

\* ord() of the characters file names are made of
Ord(c) ==
    CASE c = "." -> 46 [] c = "_" -> 95
      [] c = "a" -> 97 [] c = "e" -> 101 [] c = "f" -> 102 [] c = "g" -> 103
      [] c = "h" -> 104 [] c = "j" -> 106 [] c = "m" -> 109 [] c = "p" -> 112
      [] c = "r" -> 114 [] c = "s" -> 115 [] c = "t" -> 116
      [] OTHER -> 48 + DigitVal(c)

DigitChar(d) ==
    CASE d = 0 -> "0" [] d = 1 -> "1" [] d = 2 -> "2" [] d = 3 -> "3"
      [] d = 4 -> "4" [] d = 5 -> "5" [] d = 6 -> "6" [] d = 7 -> "7"
      [] d = 8 -> "8" [] d = 9 -> "9"

\* str(k) for k >= 0
RECURSIVE DecDigits(_)
DecDigits(k) ==
    IF k < 10 THEN <<DigitChar(k)>>
    ELSE Append(DecDigits(k \div 10), DigitChar(k % 10))

\* the conversions "%0wd" and f"{k:0wd}": zeros in front up to width w, and
\* every digit of a number that is wider
ZeroPad(k, w) ==
    LET d == DecDigits(k)
    IN  IF Len(d) >= w THEN d ELSE [i \in 1..w - Len(d) |-> "0"] \o d

\* a < b on Python strings: code points, a proper prefix first
RECURSIVE LexLessFrom(_, _, _)
LexLessFrom(a, b, i) ==
    IF i > Len(a) THEN i <= Len(b)
    ELSE IF i > Len(b) THEN FALSE
    ELSE IF a[i] # b[i] THEN Ord(a[i]) < Ord(b[i])
    ELSE LexLessFrom(a, b, i + 1)
LexLess(a, b) == LexLessFrom(a, b, 1)

JpgSuffix == <<".", "j", "p", "g">>
\* 'frame_%04d.jpg' of the ffmpeg command, for the frame numbered k
FrameName(k) == <<"f", "r", "a", "m", "e", "_">> \o ZeroPad(k, 4) \o JpgSuffix
\* f"sheet_{sheet_num:02d}.jpg"
SheetName(k) == <<"s", "h", "e", "e", "t", "_">> \o ZeroPad(k, 2) \o JpgSuffix

\* self.grid_size: width x height
grid_size == <<10, 20>>
frames_per_sheet == grid_size[1] * grid_size[2]

\* min(a, b) on integers
IMin(a, b) == IF a <= b THEN a ELSE b

\* _create_sheet with the column taken modulo the grid's height
_create_sheet_ByHeight(count) ==
    [idx \in 0..count - 1 |->
        [row |-> idx \div grid_size[1], col |-> idx % grid_size[2]]]

\* _create_sheet(frame_paths): the cell each of its count frames is pasted
\* into (a frame that cannot be opened leaves its cell black); the canvas
\* itself is taken to be created
_create_sheet(count) ==
    [idx \in 0..count - 1 |->
        [row |-> idx \div grid_size[1], col |-> idx % grid_size[1]]]

\* frame counts: every small directory and the length of a long film
MaxFrameFiles == 420
LongFilmFrames == 20001
FrameCounts == 0..MaxFrameFiles \cup {LongFilmFrames, LongFilmFrames + 1}

InitSheets ==
    /\ nFrames \in FrameCounts
    \* -frame_pts 1 numbers the files by presentation time stamp, from 0, or
    \* from 1 where the muxer counts them itself
    /\ first_frame \in {0, 1}
    /\ sheetPc = "start"
    /\ num_sheets = 0 /\ sheet_num = 0
    /\ sheetFiles = <<>>
    /\ sheetsResult = "unset"
    /\ IdleParse /\ IdleTier /\ IdleFer /\ IdlePanel /\ IdleReview
    /\ IdleText /\ IdleSections /\ IdleMovie /\ IdleBullets

\* frame_paths = sorted(...); 'if not frame_paths: return None'; num_sheets
SheetsStart ==
    /\ sheetPc = "start"
    /\ IF nFrames = 0
       THEN /\ sheetsResult' = "None"
            /\ sheetPc' = "done"
            /\ UNCHANGED num_sheets
       ELSE /\ num_sheets' =
                (nFrames + frames_per_sheet - 1) \div frames_per_sheet
            /\ sheetPc' = "loop"
            /\ UNCHANGED sheetsResult
    /\ UNCHANGED <<nFrames, first_frame, sheet_num, sheetFiles,
                   parseVars, tierVars, ferVars, panelVars, reviewVars,
                   textVars, sectionVars, movieVars, bulletVars>>

\* one turn of 'for sheet_num in range(num_sheets)': the slice
\* frame_paths[start_idx:end_idx], its sheet and the file it is saved as
SheetsStep ==
    /\ sheetPc = "loop"
    /\ sheet_num < num_sheets
    /\ LET start_idx == sheet_num * frames_per_sheet
           end_idx == IMin(start_idx + frames_per_sheet, nFrames)
       IN  sheetFiles' = Append(sheetFiles,
               [name |-> SheetName(sheet_num),
                start_idx |-> start_idx,
                end_idx |-> end_idx,
                cells |-> _create_sheet(end_idx - start_idx)])
    /\ sheet_num' = sheet_num + 1
    /\ UNCHANGED <<nFrames, first_frame, sheetPc, num_sheets, sheetsResult,
                   parseVars, tierVars, ferVars, panelVars, reviewVars,
                   textVars, sectionVars, movieVars, bulletVars>>

\* the loop is over: return sheets_dir
SheetsReturn ==
    /\ sheetPc = "loop"
    /\ sheet_num = num_sheets
    /\ sheetsResult' = "created"
    /\ sheetPc' = "done"
    /\ UNCHANGED <<nFrames, first_frame, num_sheets, sheet_num, sheetFiles,
                   parseVars, tierVars, ferVars, panelVars, reviewVars,
                   textVars, sectionVars, movieVars, bulletVars>>

NextSheets == SheetsStart \/ SheetsStep \/ SheetsReturn
SpecSheets == InitSheets /\ [][NextSheets]_vars

---------------------------------------------------------------------------
(* Claims about _parse_score, checked under SpecParse *)

\* the text "15/30Score: 22/30"
BareThenExplicit ==
    << "1", "5", "/", "3", "0", "S", "c", "o", "r", "e", ":", " ", "2",
       "2", "/", "3", "0" >>
\* the text "x", newline, "7"
NumberOnSecondLine ==
    << "x", "\n", "7" >>

\* C1: for every response and every max_points > 0, _parse_score returns
\* normally, through one of its stages or its except clause, and its result
\* r satisfies 0 <= r <= max_points.
C1_ScoreInRange ==
    parsed.stage # "not_called" =>
        /\ parsed.stage \in
              {"explicit", "bare", "first_line", "default", "except"}
        /\ RLe(RInt(0), parsed.score)
        /\ RLe(parsed.score, RInt(max_points))

\* an explicit score above max_points was parsed and cut down to max_points
C1_Witness ==
    /\ parsed.stage = "explicit"
    /\ RLt(RInt(max_points), Stage1Val(response.chars))
    /\ REq(parsed.score, RInt(max_points))

\* C2: whenever the text has a case-insensitive "score: X/30" match, the
\* result is X clamped to [0, max_points], from the first stage, whatever
\* bare "Y/30" the text holds before or after it; a text holding "15/30" and
\* then "Score: 22/30" gives 22 for max_points = 30.
C2_ExplicitWins ==
    (parsed.stage # "not_called" /\ response.isStr
        /\ Stage1Starts(response.chars) # {}) =>
        /\ parsed.stage = "explicit"
        /\ Norm(parsed.score)
              = Norm(RMin(RMax(RInt(0), Stage1Val(response.chars)),
                          RInt(max_points)))
        /\ (response.chars = BareThenExplicit /\ max_points = 30)
              => REq(parsed.score, RInt(22))

\* the bare "15/30" comes first in the text and the result is still 22
C2_Witness ==
    /\ parsed.stage = "explicit"
    /\ max_points = 30
    /\ response.chars = BareThenExplicit
    /\ REq(Stage2Val(response.chars), RInt(15))
    /\ REq(parsed.score, RInt(22))

\* C3: when the text has no "score: X/30", no bare "X/30" and no number within
\* [0, max_points] on its first line, the result is exactly max_points * 0.5
\* (15 for max_points = 30), one warning is logged and the call returns
\* normally.
C3_NeutralFallback ==
    (parsed.stage # "not_called" /\ response.isStr
        /\ Stage1Starts(response.chars) = {}
        /\ Stage2Starts(response.chars) = {}
        /\ \A k \in DOMAIN FindNumbers(FirstLine(response.chars), 1) :
              LET x == FindNumbers(FirstLine(response.chars), 1)[k]
              IN  RLt(x, RInt(0)) \/ RLt(RInt(max_points), x)) =>
        /\ parsed.stage = "default"
        /\ parsed.score.n * 2 = max_points * parsed.score.d
        /\ (max_points = 30 => REq(parsed.score, RInt(15)))
        /\ parseLog = <<"Could not find valid score">>

\* the only number of the text stands on its second line
C3_Witness ==
    /\ parsed.stage = "default"
    /\ max_points = 30
    /\ response.chars = NumberOnSecondLine
    /\ REq(parsed.score, RInt(15))
    /\ Len(parseLog) = 1

---------------------------------------------------------------------------
(* Claims about the scorers and generate_expert_review, checked under      *)
(* SpecReview                                                              *)

\* C4: when the language model raises during analyze_screenplay (resp.
\* analyze_visuals), the scorer returns CategoryScore(15, "Screenplay
\* analysis failed") (resp. CategoryScore(15, "Visual analysis failed")),
\* 15 being 30 * 0.5, and the run goes on to its next step.
C4_ScorerFallback ==
    [][ (Len(lmCalls') = Len(lmCalls) + 1 /\ lmCalls'[Len(lmCalls')].raised) =>
          /\ (pc = "visuals") =>
                /\ pc' = "screenplay"
                /\ DictGet(scores', "visual_quality")
                      = CategoryScore(RInt(15), VisualFailedMsg)
          /\ (pc = "screenplay") =>
                /\ pc' = "final_review"
                /\ DictGet(scores', "screenplay_quality")
                      = CategoryScore(RInt(15), ScreenplayFailedMsg)
                /\ DictGet(scores', "screenplay_quality").score.n * 2 = 30
          /\ (pc = "start") =>
                /\ pc' = "direct_done"
                /\ direct' = CategoryScore(RInt(15), ScreenplayFailedMsg)
      ]_vars

\* the screenplay call has just raised and the run stands at the final review
C4_Witness ==
    /\ pc = "final_review"
    /\ lmCalls # <<>>
    /\ lmCalls[Len(lmCalls)] = LMCall("analyze_screenplay_prompt", TRUE)
    /\ DictGet(scores, "screenplay_quality")
          = CategoryScore(RInt(15), ScreenplayFailedMsg)

\* C5 as stated: with the transcript absent (None or an empty mapping) the
\* screenplay category is resolved to CategoryScore(0, "No transcription
\* available") and the screenplay model call is never made, in a direct call
\* of analyze_screenplay and inside generate_expert_review alike.
C5_Original ==
    ~Truthy(transcription) =>
        /\ \A k \in 1..Len(lmCalls) :
              lmCalls[k].fn # "analyze_screenplay_prompt"
        /\ pc = "direct_done"
              => direct = CategoryScore(RInt(0), NoTranscriptionMsg)
        /\ (pc = "done" /\ report.raised # "not_called")
              => screenplayUsed = CategoryScore(RInt(0), NoTranscriptionMsg)

\* C5 amended: with the transcript absent (None or an empty mapping) the
\* screenplay model call is never made; a direct call of analyze_screenplay
\* returns CategoryScore(0, "No transcription available"), while
\* generate_expert_review records no screenplay score and resolves the
\* category to CategoryScore(0, "N/A"), so the result carries the score 0.
C5_Amended ==
    ~Truthy(transcription) =>
        /\ \A k \in 1..Len(lmCalls) :
              lmCalls[k].fn # "analyze_screenplay_prompt"
        /\ pc = "direct_done"
              => direct = CategoryScore(RInt(0), NoTranscriptionMsg)
        /\ ~DictHas(scores, "screenplay_quality")
        /\ (pc = "done" /\ report.raised # "not_called")
              => screenplayUsed = CategoryScore(RInt(0), NAMsg)
        /\ (pc = "done" /\ ~result.isNone)
              => result.scores.screenplay_quality = RInt(0)

\* a run without transcript has returned its result
C5_Witness ==
    /\ pc = "done"
    /\ ~Truthy(transcription)
    /\ ~result.isNone
    /\ result.scores.screenplay_quality = RInt(0)
    /\ screenplayUsed.justification = NAMsg

\* C6: a failure of any model call inside generate_expert_review is replaced
\* by a fallback at its call site, so that the run returns a review result
\* (not None) holding the category scores.
C6_RunNotAborted ==
    (pc = "done"
        /\ \E k \in 1..Len(lmCalls) : lmCalls[k].raised) =>
        /\ ~result.isNone
        /\ result.scores.visual_quality
              = DictGet(scores, "visual_quality").score

\* C8: total_100 = (sum of the scores / (num_categories * 30)) * 100 over the
\* categories of the result; the scores 25 and 20 give 75 and "Very Good".
C8_Normalisation ==
    (pc = "done" /\ ~result.isNone) =>
        LET sc == result.scores
            sum == RAdd(sc.visual_quality, sc.screenplay_quality)
            num_categories == Cardinality(DOMAIN sc)
        IN  /\ report.total_score_100.n * sum.d * num_categories * 30
                  = sum.n * 100 * report.total_score_100.d
            /\ (REq(sc.visual_quality, RInt(25))
                  /\ REq(sc.screenplay_quality, RInt(20)))
                  => /\ REq(report.total_score_100, RInt(75))
                     /\ report.tier = "Very Good"

\* the run scored 25 and 20
C8_Witness ==
    /\ pc = "done" /\ ~result.isNone
    /\ REq(result.scores.visual_quality, RInt(25))
    /\ REq(result.scores.screenplay_quality, RInt(20))
    /\ REq(report.total_score_100, RInt(75))
    /\ report.tier = "Very Good"

\* C9: the confidence band reported is exactly [total_100 - 3, total_100 + 3]
\* ([72, 78] for the scores 25 and 20), of width 6 around total_100, and is
\* not the interval mean +/- 1.96 * std / sqrt(n) of the category scores.
C9_FixedBand ==
    (pc = "done" /\ ~result.isNone) =>
        LET t == report.total_score_100
            low == report.confidence_range[1]
            high == report.confidence_range[2]
            ci == calculate_confidence_interval(
                      <<result.scores.visual_quality,
                        result.scores.screenplay_quality>>)
        IN  /\ low.n * t.d = (t.n - 3 * t.d) * low.d
            /\ high.n * t.d = (t.n + 3 * t.d) * high.d
            /\ REq(RSub(high, low), RInt(6))
            /\ RLe(low, t) /\ RLe(t, high)
            /\ ~(REq(ci.mean, t) /\ REq(ci.margin_sq, RInt(9)))
            /\ (REq(result.scores.visual_quality, RInt(25))
                  /\ REq(result.scores.screenplay_quality, RInt(20)))
                  => REq(low, RInt(72)) /\ REq(high, RInt(78))

\* the run scored 25 and 20 and reports the band [72, 78]
C9_Witness ==
    /\ pc = "done" /\ ~result.isNone
    /\ REq(result.scores.visual_quality, RInt(25))
    /\ REq(result.scores.screenplay_quality, RInt(20))
    /\ REq(report.confidence_range[1], RInt(72))
    /\ REq(report.confidence_range[2], RInt(78))

---------------------------------------------------------------------------
(* Claims about the aggregation routines and the tier table *)

\* C7: aggregating an empty set of scores yields a total of 0 and raises no
\* division error, in format_expert_review (checked under SpecStars) and in
\* run_expert_panel alike.
C7_EmptyAggregation ==
    /\ (ferOut.raised # "not_called" /\ DOMAIN ferScores = {})
          => /\ ferOut.raised = "none"
             /\ REq(ferOut.star_score, RInt(0))
    /\ (panelPc = "returned" /\ panelScores = <<>>)
          => REq(panelFinal, RInt(0))

\* C10: get_tier maps 95.0 to "Timeless Masterpiece" and every score s with
\* 90 <= s < 95 (94.999 among them) to "Exceptional" (checked under SpecTier).
C10_TierBoundaries ==
    tierLabel # "not_called" =>
        /\ REq(tierScore, RInt(95)) => tierLabel = "Timeless Masterpiece"
        /\ (RLe(RInt(90), tierScore) /\ RLt(tierScore, RInt(95)))
              => tierLabel = "Exceptional"

\* C11: the ranges of TIERS partition [0, 100]: every score in [0, 100],
\* whole or not, lies in exactly one inclusive range, so get_tier returns
\* "Unrated" for no score in [0, 100] and only for scores outside every
\* range (checked under SpecTier).
C11_TierPartition ==
    tierLabel # "not_called" =>
        LET holding ==
                {k \in 1..Len(TIERS) :
                    /\ RLe(RInt(TIERS[k].min), tierScore)
                    /\ RLe(tierScore, RInt(TIERS[k].max))}
            inScale == RLe(RInt(0), tierScore) /\ RLe(tierScore, RInt(100))
        IN  /\ inScale => Cardinality(holding) = 1
            /\ inScale => tierLabel # "Unrated"
            /\ tierLabel = "Unrated" => holding = {}

\* C12: the tier label format_review_output shows for total_score_100 is the
\* label get_tier assigns to total_score_100 (checked under SpecReview).
C12_LabelFromTierTable ==
    (pc = "done" /\ report.raised = "none") =>
        report.tier = get_tier(report.total_score_100)

---------------------------------------------------------------------------
(* Claims about TextAnalyzer, checked under SpecText *)

\* C13: analyze_text returns the all-zero analysis for None, for an empty
\* mapping, for a mapping without a text entry and for a transcript whose
\* text is the empty string.
C13_EmptyInputAllZero ==
    (/\ analysis # NoAnalysis
     /\ \/ ~Truthy(taInput)
        \/ "text" \notin taInput.keys
        \/ taInput.text = <<>>)
        => /\ analysis.word_count = 0
           /\ analysis.sentence_count = 0
           /\ REq(analysis.avg_sentence_length, RInt(0))
           /\ analysis.dialogue_markers.dialogue_sentences = 0
           /\ REq(analysis.dialogue_ratio, RInt(0))

\* C14: for a non-empty transcript sentence_count is the number of pieces
\* between the occurrences of '. ', word_count the number of runs of
\* non-whitespace characters, dialogue_sentences the number of pieces that
\* hold a quote character, and dialogue_ratio their quotient; the text
\* 'He said "hi". She left.' gives 2 sentences, 1 dialogue sentence and the
\* ratio 0.5.
C14_TextCounts ==
    (/\ analysis # NoAnalysis
     /\ "text" \in taInput.keys /\ taInput.text # <<>>)
        => LET text == taInput.text
               \* '. ' cannot overlap itself: every occurrence is a cut
               cuts == {i \in 1..Len(text) - 1 :
                           text[i] = "." /\ text[i + 1] = " "}
               wordStarts ==
                   {i \in 1..Len(text) :
                       /\ text[i] \notin WhiteSpace
                       /\ i = 1 \/ text[i - 1] \in WhiteSpace}
               quotes == {i \in 1..Len(text) : text[i] \in {"\"", "'"}}
               \* the pieces, numbered by the cuts before them, that hold
               \* a quote
               quoted == {Cardinality({c \in cuts : c < q}) : q \in quotes}
           IN  /\ analysis.sentence_count = Cardinality(cuts) + 1
               /\ analysis.word_count = Cardinality(wordStarts)
               /\ analysis.dialogue_markers.dialogue_sentences
                      = Cardinality(quoted)
               /\ analysis.dialogue_ratio
                      = Norm(Rat(Cardinality(quoted), Cardinality(cuts) + 1))
               /\ text = HeSaidHi =>
                      /\ analysis.sentence_count = 2
                      /\ analysis.dialogue_markers.dialogue_sentences = 1
                      /\ analysis.dialogue_ratio = Rat(1, 2)

\* the analysis of 'He said "hi". She left.' has been returned
C14_Witness ==
    /\ taInput = TDict({"text"}, HeSaidHi)
    /\ analysis # NoAnalysis
    /\ analysis.sentence_count = 2
    /\ analysis.dialogue_ratio = Rat(1, 2)

\* C15: every analysis analyze_text returns has word_count >= 0,
\* sentence_count >= 0, 0 <= dialogue_sentences <= sentence_count and
\* 0 <= dialogue_ratio <= 1.
C15_AnalysisRanges ==
    analysis # NoAnalysis =>
        /\ analysis.word_count >= 0
        /\ analysis.sentence_count >= 0
        /\ 0 <= analysis.dialogue_markers.dialogue_sentences
        /\ analysis.dialogue_markers.dialogue_sentences
               <= analysis.sentence_count
        /\ RLe(RInt(0), analysis.dialogue_ratio)
        /\ RLe(analysis.dialogue_ratio, RInt(1))
        /\ RLe(RInt(0), analysis.dialogue_markers.dialogue_ratio)
        /\ RLe(analysis.dialogue_markers.dialogue_ratio, RInt(1))

\* a text of two sentences, several quote characters in each: the ratio
\* reaches its ceiling
C15_Witness ==
    /\ analysis # NoAnalysis
    /\ taInput.text = <<"'", "'", ".", " ", "\"">>
    /\ analysis.sentence_count = 2
    /\ analysis.dialogue_markers.dialogue_sentences = 2
    /\ analysis.dialogue_ratio = RInt(1)

---------------------------------------------------------------------------
(* Claims about the review formatter *)

\* the lines of a text, each without its surrounding whitespace
StrippedLines(text) ==
    LET ls == Split(text, "\n") IN [k \in 1..Len(ls) |-> Strip(ls[k])]

\* a line of the form **<Title>:**
IsHeaderLine(l) ==
    /\ Len(l) >= 5
    /\ l[1] = "*" /\ l[2] = "*"
    /\ l[Len(l) - 2] = ":" /\ l[Len(l) - 1] = "*" /\ l[Len(l)] = "*"

\* the places of the header lines, in input order
HeaderPlaces(L) ==
    LET IsHeaderAt(k) == IsHeaderLine(L[k])
    IN  SelectSeq([k \in 1..Len(L) |-> k], IsHeaderAt)

\* the non-blank lines between the header at place k and the next header
\* (or the end of the text), joined by newlines
BodyAfter(L, k) ==
    LET later == {j \in k + 1..Len(L) : IsHeaderLine(L[j])}
        next == IF later = {} THEN Len(L) + 1
                ELSE CHOOSE j \in later : \A i \in later : j <= i
        NotBlank(l) == l # <<>>
    IN  Join(SelectSeq(SubSeq(L, k + 1, next - 1), NotBlank), "\n")

\* the two sections of the text StrongPacingReview
StrongPacingSections ==
    << [key |-> KeyStrengths,
        value |-> << "S", "t", "r", "o", "n", "g", " ", "p", "a", "c", "i",
                     "n", "g", "." >>],
       [key |-> FinalVerdict,
        value |-> << "G", "o", "o", "d", " ", "f", "i", "l", "m", "." >>] >>

\* C16 as stated: every header line '**<Title>:**' opens a section named
\* <Title> that gathers the following non-header lines up to the next header;
\* lines before the first header are dropped; the result has exactly one
\* entry per header, in input order; the example text yields its two
\* sections (checked under SpecSections).
C16_Original ==
    sectionsOut.status = "returned" =>
        LET L == StrippedLines(sectionsIn)
            H == HeaderPlaces(L)
            d == sectionsOut.dict
        IN  /\ Len(d) = Len(H)
            /\ \A j \in 1..Len(H) :
                  /\ d[j].key = SubSeq(L[H[j]], 3, Len(L[H[j]]) - 3)
                  /\ d[j].value = BodyAfter(L, H[j])
            /\ sectionsIn = StrongPacingReview => d = StrongPacingSections

\* C16 as amended: a header's name is its line without the '*' and ':' at
\* both ends; the result has one entry per distinct non-empty name, in the
\* order the names first appear, holding the lines after the last header of
\* that name; a header without a name opens no section.
C16_Amended ==
    sectionsOut.status = "returned" =>
        LET L == StrippedLines(sectionsIn)
            H == HeaderPlaces(L)
            d == sectionsOut.dict
            Name(k) == StripChars(L[k], {"*", ":"})
            IsFirstOfName(k) ==
                /\ Name(k) # <<>>
                /\ \A i \in 1..Len(H) : H[i] < k => Name(H[i]) # Name(k)
            firsts == SelectSeq(H, IsFirstOfName)
            LastOfName(k) ==
                CHOOSE m \in 1..Len(L) :
                    /\ IsHeaderLine(L[m]) /\ Name(m) = Name(k)
                    /\ \A i \in 1..Len(H) :
                          Name(H[i]) = Name(k) => H[i] <= m
        IN  /\ Len(d) = Len(firsts)
            /\ \A j \in 1..Len(firsts) :
                  /\ d[j].key = Name(firsts[j])
                  /\ d[j].value = BodyAfter(L, LastOfName(firsts[j]))
            /\ sectionsIn = StrongPacingReview => d = StrongPacingSections

\* the header **A:** twice: one entry, holding the lines after the second
C16_Witness ==
    /\ sectionsIn = Join(<< <<"*", "*", "A", ":", "*", "*">>, <<"x">>,
                            <<"*", "*", "A", ":", "*", "*">>,
                            <<" ", "y", ".">> >>, "\n")
    /\ sectionsOut.status = "returned"
    /\ sectionsOut.dict = << [key |-> <<"A">>, value |-> <<"y", ".">>] >>

\* C17: the formatter never aborts: whatever the review text,
\* parse_review_sections and parse_bullet_points return normally, so
\* format_review_output raises nothing and generate_expert_review returns
\* the review it generated (checked under SpecReview).
C17_FormatterNeverAborts ==
    (pc = "done" /\ report.raised # "not_called") =>
        /\ report.raised = "none"
        /\ ~result.isNone
        /\ result.review = review

---------------------------------------------------------------------------
(* Claims about process_movie, checked under SpecMovie *)

\* some step of the audio path failed: extract_audio returned None,
\* split_audio returned no chunks or transcribe_audio returned None
AudioPathFailed ==
    \E k \in 1..Len(audioCalls) :
        /\ audioCalls[k].op \in
               {"extract_audio", "split_audio", "transcribe_audio"}
        /\ ~audioCalls[k].ok

FramesAndSheetsAvailable == frames_dir # "None" /\ sheets_dir # "None"

C19_AbortWithoutFramesOrSheets ==
    (frames_dir = "None" \/ sheets_dir = "None")
        => /\ moviePc = "returned"
           /\ audioCalls = <<>>
           /\ reviewCalls = <<>> /\ pc = "idle" /\ lmCalls = <<>>
           /\ Len(failures) = 1
           /\ escaped = "none"

\* frames were extracted, sheet generation returned None
C19_Witness ==
    /\ ~has_frames /\ frames_dir = "created"
    /\ ~has_sheets /\ sheets_dir = "None"
    /\ moviePc = "returned"
    /\ failures = <<"Sheet generation failed">>

---------------------------------------------------------------------------
(* Claims about the scorers, checked under SpecReview *)

\* C20: every CategoryScore analyze_visuals or analyze_screenplay produces,
\* from a parsed response, from the except clause or for a missing
\* transcript, has 0 <= score <= 30.
C20_CategoryScoreRange ==
    /\ \A k \in 1..Len(scores) :
          /\ RLe(RInt(0), scores[k].value.score)
          /\ RLe(scores[k].value.score, RInt(30))
    /\ RLe(RInt(0), direct.score) /\ RLe(direct.score, RInt(30))

\* a response of 45/30 scored at the ceiling, and a failed screenplay call
C20_Witness ==
    /\ pc = "final_review"
    /\ DictHas(scores, "visual_quality")
    /\ DictGet(scores, "visual_quality").score = RInt(30)
    /\ DictGet(scores, "visual_quality").justification
           = << "S", "c", "o", "r", "e", ":", " ", "4", "5", "/", "3", "0" >>
    /\ DictHas(scores, "screenplay_quality")
    /\ DictGet(scores, "screenplay_quality")
           = CategoryScore(RInt(15), ScreenplayFailedMsg)

---------------------------------------------------------------------------
\* the ways (\d+(?:\.\d+)?) followed by the literal lit can match at i
NumOverCands(s, i, lit) ==
    {c \in (i + 1..DigitRunEnd(s, i)) \X (i + 1..Len(s) + 1) :
        /\ \/ c[2] = c[1]
           \/ /\ c[1] <= Len(s) /\ s[c[1]] = "."
              /\ c[2] >= c[1] + 2
              /\ c[2] <= DigitRunEnd(s, c[1] + 1)
        /\ LitAt(s, c[2], lit)}
NumOverVal(s, i, lit) ==
    LET c == CHOOSE c \in NumOverCands(s, i, lit) :
                 \A o \in NumOverCands(s, i, lit) :
                     \/ o[1] < c[1]
                     \/ o[1] = c[1] /\ o[2] <= c[2]
    IN  TokenVal(s, i, c[1], c[2])
\* the starts of "score:", white space, a number and lit, ignoring case
ScoreOverStarts(s, lit) ==
    {i \in 1..Len(s) :
        /\ LitAtI(s, i, ScoreColon)
        /\ \E w \in i + 6..SpaceRunEnd(s, i + 6) :
               NumOverCands(s, w, lit) # {}}
ScoreOverVal(s, lit) ==
    LET i == CHOOSE k \in ScoreOverStarts(s, lit) :
                 \A o \in ScoreOverStarts(s, lit) : k <= o
        ws == {w \in i + 6..SpaceRunEnd(s, i + 6) :
                  NumOverCands(s, w, lit) # {}}
        w == CHOOSE k \in ws : \A o \in ws : o <= k
    IN  NumOverVal(s, w, lit)
\* the starts of a bare number followed by lit
BareOverStarts(s, lit) == {i \in 1..Len(s) : NumOverCands(s, i, lit) # {}}
BareOverVal(s, lit) ==
    LET i == CHOOSE k \in BareOverStarts(s, lit) :
                 \A o \in BareOverStarts(s, lit) : k <= o
    IN  NumOverVal(s, i, lit)

\* C21: for a call with max_points = M, a response containing "Score: X/M"
\* anywhere is matched by stage 1: the call returns clamp(X, 0, M) and warns
\* of nothing; a response without it that contains a bare "X/M" is matched
\* by stage 2 with the same denominator literal, with the same outcome.
C21_ScaleDenominator ==
    (parsed.stage # "not_called" /\ response.isStr) =>
        LET s == response.chars
            lit == ScaleLiteral(max_points)
        IN  /\ ScoreOverStarts(s, lit) # {} =>
                /\ parsed.score = Clamp(ScoreOverVal(s, lit), max_points)
                /\ parseLog = <<>>
            /\ (ScoreOverStarts(s, lit) = {} /\ BareOverStarts(s, lit) # {}) =>
                /\ parsed.score = Clamp(BareOverVal(s, lit), max_points)
                /\ parseLog = <<>>

---------------------------------------------------------------------------
\* the number a sheet file name carries between "sheet_" and ".jpg"
SheetSuffix(name) == DigitsVal(name, 7, Len(name) - 3)

\* C22: the sheets written carry the numbers 0, 1, 2, ... without gaps in
\* their names, the names sort lexicographically in the order the sheets
\* were written, and the frame files sort lexicographically in the order of
\* their frame numbers, however many frames and sheets there are.
C22_NamesSortChronologically ==
    sheetPc = "done" =>
        /\ \A k \in 1..Len(sheetFiles) :
               SheetSuffix(sheetFiles[k].name) = k - 1
        /\ \A k \in 1..Len(sheetFiles) - 1 :
               LexLess(sheetFiles[k].name, sheetFiles[k + 1].name)
        /\ \A i \in first_frame..first_frame + nFrames - 2 :
               LexLess(FrameName(i), FrameName(i + 1))

---------------------------------------------------------------------------
---------------------------------------------------------------------------
\* C23: in a run with --no-audio no AudioExtractor is built and no audio is
\* extracted, split or transcribed, the transcript file is not read,
\* generate_expert_review is called with transcription = None only, no
\* screenplay model call is made, and a review that is returned carries
\* screenplay_quality 0.
C23_NoAudioFlag ==
    no_audio =>
        /\ audioCalls = <<>>
        /\ audio_path \in {"unset", "existing"}
        /\ moviePc \notin {"extract_audio", "transcription", "split_audio"}
        /\ movieTranscription = TNone
        /\ \A k \in 1..Len(reviewCalls) : reviewCalls[k] = TNone
        /\ \A k \in 1..Len(lmCalls) :
               lmCalls[k].fn # "analyze_screenplay_prompt"
        /\ ~DictHas(scores, "screenplay_quality")
        /\ ~result.isNone => result.scores.screenplay_quality = RInt(0)

\* a run with --no-audio that found an audio file and a transcript on disk
\* and returned a review
C23_Witness ==
    /\ no_audio /\ has_audio /\ has_transcription
    /\ moviePc = "returned"
    /\ reviewCalls = <<TNone>>
    /\ ~result.isNone
    /\ result.scores.screenplay_quality = RInt(0)

---------------------------------------------------------------------------
\* C24: a failure of generate_review for one expert (the reviewer raises or
\* its score is not a number) never leaves generate_review as an exception:
\* the expert is skipped, the loop goes on to the experts that remain and
\* run_expert_panel returns having visited every one of them.
C24_PanelSurvivesFailure ==
    /\ panelPc # "raised"
    /\ panelPc = "returned" => panelIdx = panelN + 1

---------------------------------------------------------------------------
\* the non-blank lines of a text, stripped
NonBlankLines(text) ==
    SelectSeq([k \in 1..Len(Split(text, "\n")) |->
                  Strip(Split(text, "\n")[k])],
              LAMBDA l : l # <<>>)
\* a line that begins with a digit followed by '.', or with the bullet glyph
IsMarkerLine(l) ==
    \/ Len(l) >= 2 /\ IsDigit(l[1]) /\ l[2] = "."
    \/ l[1] = Bullet
\* the text of a marker line after its marker
AfterMarker(l) ==
    IF l[1] = Bullet THEN Strip(SubSeq(l, 2, Len(l)))
    ELSE Strip(SubSeq(l, 3, Len(l)))
\* the points of the lines L[k..], the point that is open holding cur
RECURSIVE PointsAsStated(_, _, _)
PointsAsStated(L, k, cur) ==
    IF k > Len(L) THEN IF cur = <<>> THEN <<>> ELSE <<Join(cur, " ")>>
    ELSE IF IsMarkerLine(L[k])
    THEN (IF cur = <<>> THEN <<>> ELSE <<Join(cur, " ")>>)
             \o PointsAsStated(L, k + 1, <<AfterMarker(L[k])>>)
    ELSE PointsAsStated(L, k + 1, Append(cur, L[k]))

\* C26: parse_bullet_points returns one point per marker line (a line that
\* begins with a digit and '.', or with the bullet glyph), plus one when
\* unmarked text precedes the first marker; each point ends with the whole
\* text that follows its marker, joined by single spaces with the unmarked
\* lines after it, so that no text is lost.
C26_BulletPoints ==
    bulletsOut.status = "returned" =>
        LET want == PointsAsStated(NonBlankLines(bulletsIn), 1, <<>>)
        IN  /\ bulletsOut.raised = "none"
            /\ Len(bulletsOut.points) = Len(want)
            /\ \A k \in 1..Len(want) :
                   EndsWith(bulletsOut.points[k], want[k])

---------------------------------------------------------------------------
\* the value v lies in [0, maxp]
InScale(v, maxp) == RLe(RInt(0), v) /\ RLe(v, RInt(maxp))

\* C25: the first-line stage is reached only when neither "score: X/30" nor
\* a bare "X/30" occurs in the text; it then returns the first numeric token
\* of the first line, from the left, whose value lies in [0, max_points],
\* passing over the tokens before it that lie outside; when the first line
\* holds no such token the stage returns nothing, whatever numbers the
\* later lines hold.
C25_FirstLineStage ==
    (parsed.stage # "not_called" /\ response.isStr) =>
        LET s == response.chars
            nums == FindNumbers(SubSeq(s, 1, NewlineAt(s, 1) - 1), 1)
            hits == {k \in 1..Len(nums) : InScale(nums[k], max_points)}
        IN  /\ parsed.stage = "first_line" =>
                Stage1Starts(s) = {} /\ Stage2Starts(s) = {}
            /\ (Stage1Starts(s) = {} /\ Stage2Starts(s) = {}) =>
                IF hits # {}
                THEN /\ parsed.stage = "first_line"
                     /\ \E k \in hits :
                          /\ \A j \in hits : k <= j
                          /\ parsed.score = nums[k]
                ELSE parsed.stage = "default"

\* a first line "77 7" read with max_points 15: 77 is passed over, 7 returned
C25_Witness ==
    /\ parsed.stage = "first_line"
    /\ max_points = 15
    /\ response.chars = <<"7", "7", " ", "7">>
    /\ parsed.score = RInt(7)

---------------------------------------------------------------------------
\* the sequence a is an initial part of the sequence b
IsPrefix(a, b) == Len(a) <= Len(b) /\ SubSeq(b, 1, Len(a)) = a

\* C27: in every step of generate_expert_review the scores recorded so far
\* stay as they are (the collection only grows at its end), at most one
\* model call is made, the screenplay call is made only with the visual
\* score recorded, and the final-review call only with every category score
\* of the run recorded, none being recorded after it.
C27_Sequential ==
    [][pc' # "direct_done" =>
        /\ IsPrefix(scores, scores')
        /\ IsPrefix(lmCalls, lmCalls')
        /\ Len(lmCalls') <= Len(lmCalls) + 1
        /\ Len(lmCalls') = Len(lmCalls) + 1 =>
            LET fn == lmCalls'[Len(lmCalls')].fn
            IN  /\ fn = "analyze_visual_prompt" => scores = <<>>
                /\ fn = "analyze_screenplay_prompt" =>
                       /\ DictHas(scores, "visual_quality")
                       /\ ~DictHas(scores, "screenplay_quality")
                /\ fn = "generate_final_review_prompt" =>
                       /\ DictHas(scores, "visual_quality")
                       /\ Truthy(transcription) =>
                              DictHas(scores, "screenplay_quality")
                       /\ scores' = scores
        /\ pc \in {"format", "done"} => scores' = scores /\ lmCalls' = lmCalls
    ]_vars

\* a run that made its three model calls one after the other and returned
C27_Witness ==
    /\ pc = "done" /\ ~result.isNone
    /\ Len(lmCalls) = 3
    /\ lmCalls[1].fn = "analyze_visual_prompt"
    /\ lmCalls[2].fn = "analyze_screenplay_prompt"
    /\ lmCalls[3].fn = "generate_final_review_prompt"
    /\ Len(scores) = 2
    /\ scores[1].key = "visual_quality"
    /\ scores[2].key = "screenplay_quality"

---------------------------------------------------------------------------
\* C28: a result generate_expert_review returns has both category scores in
\* [0, 30], the screenplay score being 0 when the transcript is absent; the
\* total_score_100 format_review_output computes from it lies in [0, 100],
\* and the band around it is not clamped: its lower end lies in [-3, 97],
\* its upper end in [3, 103].
C28_TotalAndBandRanges ==
    (pc = "done" /\ ~result.isNone) =>
        /\ InScale(result.scores.visual_quality, 30)
        /\ InScale(result.scores.screenplay_quality, 30)
        /\ ~Truthy(transcription) =>
               result.scores.screenplay_quality = RInt(0)
        /\ RLe(RInt(0), report.total_score_100)
        /\ RLe(report.total_score_100, RInt(100))
        /\ RLe(RInt(0 - 3), report.confidence_range[1])
        /\ RLe(report.confidence_range[1], RInt(97))
        /\ RLe(RInt(3), report.confidence_range[2])
        /\ RLe(report.confidence_range[2], RInt(103))

\* both categories scored 30: the total is 100 and the band reaches 103
C28_Witness ==
    /\ pc = "done" /\ ~result.isNone
    /\ result.scores.visual_quality = RInt(30)
    /\ result.scores.screenplay_quality = RInt(30)
    /\ REq(report.total_score_100, RInt(100))
    /\ REq(report.confidence_range[1], RInt(97))
    /\ REq(report.confidence_range[2], RInt(103))

====
